---- MODULE Spec2Model ----
(***************************************************************************)
(* Health assessment engine of the Temporal SRE copilot.                   *)
(*                                                                         *)
(* Part 1: the health state machine (models/state_machine.py), a pure      *)
(*         function, driven the way its callers drive it: the returned     *)
(*         (state, count) pair is fed back into the next call.             *)
(*                                                                         *)
(* Part 2: the durable workflows around it: ObserveClusterWorkflow          *)
(*         (workflows/observe.py), AssessHealthWorkflow                    *)
(*         (workflows/assess.py) and the state store activities            *)
(*         (activities/state_store.py).  A workflow runs one step at a     *)
(*         time between its suspension points (activity, child start,      *)
(*         sleep); an action is one such step.                             *)
(*                                                                         *)
(* Units.  The source computes on floats; the model uses scaled integers   *)
(* so that every comparison of the source is exact:                        *)
(*    rates   (per second)  in tenths            1.0/s  = 10               *)
(*    ages    (seconds)     in tenths            1.0 s  = 10               *)
(*    latency (ms)          in milliseconds                                *)
(*    ratios  (0..1)        in hundredths        0.95   = 95               *)
(***************************************************************************)
EXTENDS Integers, Sequences, FiniteSets, TLC

VARIABLES
    ev_primary,     \* evaluate_health_state: argument `primary`
    ev_state,       \* evaluate_health_state: argument `current_state`
    ev_count,       \* evaluate_health_state: argument `consecutive_critical_count`
    ev_ret,         \* the tuple the last call returned, NoRet before the call
    now,                        \* workflow.now(), in observation intervals of 30 s
    health_assessments,         \* table health_assessments, rows in insertion order
    metrics_snapshots,          \* table metrics_snapshots, rows in insertion order
    obs_pc,                     \* ObserveClusterWorkflow: where run() is suspended
    _current_state,             \* ObserveClusterWorkflow._current_state
    _reconciled,                \* ObserveClusterWorkflow._reconciled
    _signal_window,             \* ObserveClusterWorkflow._signal_window
    _consecutive_critical_count,\* ObserveClusterWorkflow._consecutive_critical_count
    signals,                    \* run(): local `signals`
    new_state,                  \* run(): local `new_state`
    assessment,                 \* _reconcile_stored_state(): local `assessment`
    obs_log,                    \* the last error run() logged and when
    children,                   \* the AssessHealthWorkflow runs, in start order
    executions,                 \* Temporal server: the running workflow executions
    starters,                   \* the processes that called start_workflows
    sched_pc,                   \* ScheduledAssessmentWorkflow: where run() is suspended
    sched_signals,              \* ScheduledAssessmentWorkflow.run(): local `signals`
    sched_timer,                \* when the pending workflow.sleep of run() fires
    behaviour_profiles,         \* table behaviour_profiles: id -> metadata row
    baseline_calls,             \* the calls of ProfileStorage.set_baseline, in call order
    s3_objects,                 \* the bucket: profile id -> body of profiles/{id}.json
    status_response,            \* the StatusResponse the last GET /status returned
    status_calls,               \* the number of GET /status requests answered
    cc_preset,                  \* compile(): argument `preset`
    cc_modifier,                \* compile(): argument `modifier`
    cc_overrides,               \* compile(): argument `overrides`, key -> value
    cc_result,                  \* what compile() returned or raised, None before the call
    th_config,                  \* the thresholds the state machine is given
    th_pc,                      \* the worker process: boot before run_worker returns from start-up, then running
    query_reply,                \* what the last query sent to the observer was answered with
    cmp_a,                      \* the first profile handed to compare_profiles, the baseline of detect_drift
    cmp_b,                      \* the second profile; its telemetry is the current telemetry of detect_drift
    cmp_kwargs,                 \* the keyword arguments of the compare_profiles call
    cmp_comparison,             \* what compare_profiles returned or raised, None before the call
    cmp_correlation,            \* what correlate_drift returned for cmp_comparison, None before the call
    drift_thresholds,           \* the thresholds argument of detect_drift, None for the defaults
    drift_assessment,           \* what detect_drift returned, None before the call
    ws_worker,                  \* the WorkerSignals handed to evaluate_worker_scaling_rules
    ws_action,                  \* its proposed_action
    ws_context,                 \* its WorkerScalingContext, None if not given
    ws_warnings                 \* the warnings it returned

evalVars == <<ev_primary, ev_state, ev_count, ev_ret>>
storeVars == <<health_assessments, metrics_snapshots>>
obsVars == <<obs_pc, _current_state, _reconciled, _signal_window, _consecutive_critical_count, signals, new_state, assessment, obs_log>>
vars == <<ev_primary, ev_state, ev_count, ev_ret, now, health_assessments, metrics_snapshots, obs_pc, _current_state, _reconciled, _signal_window, _consecutive_critical_count, signals, new_state, assessment, obs_log, children, executions, starters, sched_pc, sched_signals, sched_timer, behaviour_profiles, baseline_calls, s3_objects, status_response, status_calls, cc_preset, cc_modifier, cc_overrides, cc_result, th_config, th_pc, query_reply, cmp_a, cmp_b, cmp_kwargs, cmp_comparison, cmp_correlation, drift_thresholds, drift_assessment, ws_worker, ws_action, ws_context, ws_warnings>>
startVars == <<executions, starters>>
schedVars == <<sched_pc, sched_signals, sched_timer>>
profVars == <<behaviour_profiles, baseline_calls, s3_objects>>
apiVars == <<status_response, status_calls>>
compVars == <<cc_preset, cc_modifier, cc_overrides, cc_result>>
thVars == <<th_config, th_pc>>
queryVars == <<query_reply>>
cmpVars == <<cmp_a, cmp_b, cmp_kwargs, cmp_comparison, cmp_correlation, drift_thresholds, drift_assessment>>
scalingVars == <<ws_worker, ws_action, ws_context, ws_warnings>>
\* The variables of the parts outside the state machine and the two workflows.
otherVars == <<startVars, schedVars, profVars, apiVars, compVars, thVars, queryVars, cmpVars, scalingVars>>
\* What the starters, the scheduled workflow and the profile storage leave alone
\* of the parts they do not belong to.
startOutside == <<now, storeVars, obsVars, children, evalVars, schedVars, profVars, apiVars, compVars, thVars, queryVars, cmpVars, scalingVars>>
schedOthers == <<startVars, profVars, apiVars, compVars, thVars, queryVars, cmpVars, scalingVars>>
profOutside == <<now, storeVars, obsVars, children, evalVars, startVars, schedVars, apiVars, compVars, thVars, queryVars, cmpVars, scalingVars>>
apiOutside == <<obsVars, children, evalVars, startVars, schedVars, profVars, compVars, thVars, queryVars, cmpVars, scalingVars>>
compOutside == <<now, storeVars, obsVars, children, evalVars, startVars, schedVars, profVars, apiVars, thVars, queryVars, cmpVars, scalingVars>>
thOutside == <<now, storeVars, obsVars, children, startVars, schedVars, profVars, apiVars, compVars, queryVars, cmpVars, scalingVars>>
queryOutside == <<now, storeVars, obsVars, children, evalVars, startVars, schedVars, profVars, apiVars, thVars, compVars, cmpVars, scalingVars>>
cmpOutside == <<now, storeVars, obsVars, children, evalVars, startVars, schedVars, profVars, apiVars, thVars, queryVars, compVars, scalingVars>>
scalingOutside == <<now, storeVars, obsVars, children, evalVars, startVars, schedVars, profVars, apiVars, thVars, queryVars, cmpVars, compVars>>

\* ---------------------------------------------------------------------------
\* models/signals.py
\* ---------------------------------------------------------------------------
HAPPY == "happy"
STRESSED == "stressed"
CRITICAL == "critical"
HealthState == {HAPPY, STRESSED, CRITICAL}

\* ---------------------------------------------------------------------------
\* models/config.py : thresholds (scaled, see Units)
\* ---------------------------------------------------------------------------
\* The demand floor of the completion-rate gate (read by _is_critical) is a
\* field of the copilot package's CriticalThresholds; the specification calls
\* it a global default, and the ramp-up scenario (2.5/s terminal rate, gate
\* inactive) puts it above 2.5/s.
completion_rate_demand_floor_per_sec == 50

CriticalThresholds ==
    [ state_transitions_min_per_sec        |-> 100,
      workflow_completion_rate_min         |-> 50,
      history_backlog_age_max_sec          |-> 1200,
      history_processing_rate_min_per_sec  |-> 100,
      persistence_error_rate_max_per_sec   |-> 100,
      completion_rate_demand_floor_per_sec |-> completion_rate_demand_floor_per_sec ]

StressedThresholds ==
    [ state_transition_latency_p99_max_ms |-> 500,
      history_backlog_age_stress_sec      |-> 300,
      frontend_latency_p99_max_ms         |-> 1000,
      persistence_latency_p99_max_ms      |-> 100,
      shard_churn_rate_max_per_sec        |-> 50,
      poller_timeout_rate_max             |-> 10 ]

HealthyThresholds ==
    [ state_transitions_healthy_per_sec |-> 500,
      history_backlog_age_healthy_sec   |-> 100,
      workflow_completion_rate_healthy  |-> 95 ]

\* ---------------------------------------------------------------------------
\* models/state_machine.py
\* ---------------------------------------------------------------------------
CONSECUTIVE_CRITICAL_THRESHOLD == 3

_is_idle_has_no_throughput(primary) ==
    /\ primary.state_transitions.throughput_per_sec < 10
    /\ primary.history.task_processing_rate_per_sec < 10

_is_idle_has_no_errors(primary) ==
    /\ primary.frontend.error_rate_per_sec < 1
    /\ primary.persistence.error_rate_per_sec < 1
    /\ primary.workflow_completion.failed_per_sec < 1

_is_idle_has_no_backlog(primary) ==
    /\ primary.history.backlog_age_sec < 10
    /\ primary.matching.workflow_backlog_age_sec < 10
    /\ primary.matching.activity_backlog_age_sec < 10

_is_idle(primary) ==
    /\ _is_idle_has_no_throughput(primary)
    /\ _is_idle_has_no_errors(primary)
    /\ _is_idle_has_no_backlog(primary)


\* Mutation: the completion-rate gate is not demand-gated.
_is_critical_no_demand_gate(primary, thresholds) ==
    \/ primary.state_transitions.throughput_per_sec < thresholds.state_transitions_min_per_sec
    \/ primary.workflow_completion.completion_rate < thresholds.workflow_completion_rate_min
    \/ primary.history.backlog_age_sec > thresholds.history_backlog_age_max_sec
    \/ primary.history.task_processing_rate_per_sec
          < thresholds.history_processing_rate_min_per_sec
    \/ primary.persistence.error_rate_per_sec > thresholds.persistence_error_rate_max_per_sec

\* Any one gate trips.  Python returns at the first gate that fires.
_is_critical(primary, thresholds) ==
    LET total_terminal == primary.workflow_completion.success_per_sec
                          + primary.workflow_completion.failed_per_sec
    IN  IF primary.state_transitions.throughput_per_sec
              < thresholds.state_transitions_min_per_sec
        THEN TRUE
        ELSE IF /\ total_terminal >= thresholds.completion_rate_demand_floor_per_sec
                /\ primary.workflow_completion.completion_rate
                      < thresholds.workflow_completion_rate_min
        THEN TRUE
        ELSE IF primary.history.backlog_age_sec > thresholds.history_backlog_age_max_sec
        THEN TRUE
        ELSE IF primary.history.task_processing_rate_per_sec
                  < thresholds.history_processing_rate_min_per_sec
        THEN TRUE
        ELSE primary.persistence.error_rate_per_sec
                  > thresholds.persistence_error_rate_max_per_sec

\* Mutation: the hysteresis band forgets the processing-rate margin.
_is_near_critical_no_processing_rate(primary, thresholds) ==
    IF 2 * primary.state_transitions.throughput_per_sec
          < 3 * thresholds.state_transitions_min_per_sec
    THEN TRUE
    ELSE 4 * primary.history.backlog_age_sec > 3 * thresholds.history_backlog_age_max_sec

\* x < t * 1.5  is  2x < 3t ;  x > t * 0.75  is  4x > 3t  (exact on the floats used).
_is_near_critical(primary, thresholds) ==
    IF 2 * primary.state_transitions.throughput_per_sec
          < 3 * thresholds.state_transitions_min_per_sec
    THEN TRUE
    ELSE IF 4 * primary.history.backlog_age_sec > 3 * thresholds.history_backlog_age_max_sec
    THEN TRUE
    ELSE 2 * primary.history.task_processing_rate_per_sec
            < 3 * thresholds.history_processing_rate_min_per_sec

_is_stressed(primary, thresholds) ==
    IF primary.state_transitions.latency_p99_ms > thresholds.state_transition_latency_p99_max_ms
    THEN TRUE
    ELSE IF primary.history.backlog_age_sec > thresholds.history_backlog_age_stress_sec
    THEN TRUE
    ELSE IF primary.frontend.latency_p99_ms > thresholds.frontend_latency_p99_max_ms
    THEN TRUE
    ELSE IF primary.persistence.latency_p99_ms > thresholds.persistence_latency_p99_max_ms
    THEN TRUE
    ELSE IF primary.history.shard_churn_rate_per_sec > thresholds.shard_churn_rate_max_per_sec
    THEN TRUE
    ELSE primary.poller.poll_timeout_rate > thresholds.poller_timeout_rate_max

_is_healthy(primary, thresholds) ==
    /\ primary.state_transitions.throughput_per_sec
          >= thresholds.state_transitions_healthy_per_sec
    /\ primary.history.backlog_age_sec <= thresholds.history_backlog_age_healthy_sec
    /\ primary.workflow_completion.completion_rate
          >= thresholds.workflow_completion_rate_healthy

\* Mutation: the transition invariant is not applied.
_apply_transition_invariant_identity(current_state, raw_state) ==
    raw_state

_apply_transition_invariant(current_state, raw_state) ==
    IF current_state = HAPPY /\ raw_state = CRITICAL
    THEN STRESSED
    ELSE raw_state

\* The gates of evaluate_health_state that follow the idle detector, shared by
\* the mutations below: `new_count` is the count returned when a critical gate
\* trips, `sustained` whether that observation counts as sustained, and
\* `reset_count` the count returned when no critical gate trips.
evaluate_not_idle(primary, current_state, critical, stressed, healthy, new_count, sustained, reset_count) ==
    IF _is_critical(primary, critical)
    THEN IF sustained
         THEN <<_apply_transition_invariant(current_state, CRITICAL), new_count>>
         ELSE <<_apply_transition_invariant(current_state, STRESSED), new_count>>
    ELSE IF current_state = CRITICAL /\ _is_near_critical(primary, critical)
         THEN <<STRESSED, reset_count>>
         ELSE IF _is_stressed(primary, stressed)
         THEN <<STRESSED, reset_count>>
         ELSE IF _is_healthy(primary, healthy)
         THEN <<HAPPY, reset_count>>
         ELSE <<STRESSED, reset_count>>

\* Mutation: Critical needs one observation more than the threshold (> for >=).
evaluate_health_state_off_by_one(primary, current_state, critical, stressed, healthy, consecutive_critical_count) ==
    IF _is_idle(primary)
    THEN <<HAPPY, 0>>
    ELSE evaluate_not_idle(primary, current_state, critical, stressed, healthy,
                           consecutive_critical_count + 1,
                           consecutive_critical_count + 1 > CONSECUTIVE_CRITICAL_THRESHOLD, 0)

\* Mutation: a non-critical observation carries the count instead of resetting it.
evaluate_health_state_no_reset(primary, current_state, critical, stressed, healthy, consecutive_critical_count) ==
    IF _is_idle(primary)
    THEN <<HAPPY, 0>>
    ELSE evaluate_not_idle(primary, current_state, critical, stressed, healthy,
                           consecutive_critical_count + 1,
                           consecutive_critical_count + 1 >= CONSECUTIVE_CRITICAL_THRESHOLD,
                           consecutive_critical_count)

\* Mutation: the critical gates are checked before the idle detector.
evaluate_health_state_idle_last(primary, current_state, critical, stressed, healthy, consecutive_critical_count) ==
    IF _is_critical(primary, critical) \/ ~_is_idle(primary)
    THEN evaluate_not_idle(primary, current_state, critical, stressed, healthy,
                           consecutive_critical_count + 1,
                           consecutive_critical_count + 1 >= CONSECUTIVE_CRITICAL_THRESHOLD, 0)
    ELSE <<HAPPY, 0>>

\* Mutation: the counter is not incremented when the invariant downgrades
\* Critical to Stressed.
evaluate_health_state_no_increment(primary, current_state, critical, stressed, healthy, consecutive_critical_count) ==
    IF _is_idle(primary)
    THEN <<HAPPY, 0>>
    ELSE evaluate_not_idle(primary, current_state, critical, stressed, healthy,
                           IF current_state = HAPPY THEN consecutive_critical_count
                                                    ELSE consecutive_critical_count + 1,
                           consecutive_critical_count + 1 >= CONSECUTIVE_CRITICAL_THRESHOLD, 0)

\* Returns the tuple <<new health state, updated consecutive critical count>>.
evaluate_health_state(primary, current_state, critical, stressed, healthy, consecutive_critical_count) ==
    IF _is_idle(primary)
    THEN <<HAPPY, 0>>
    ELSE IF _is_critical(primary, critical)
    THEN LET new_count == consecutive_critical_count + 1
         IN  IF new_count >= CONSECUTIVE_CRITICAL_THRESHOLD
             THEN <<_apply_transition_invariant(current_state, CRITICAL), new_count>>
             ELSE <<_apply_transition_invariant(current_state, STRESSED), new_count>>
    ELSE LET new_count == 0
         IN  IF current_state = CRITICAL /\ _is_near_critical(primary, critical)
             THEN <<STRESSED, new_count>>
             ELSE IF _is_stressed(primary, stressed)
             THEN <<STRESSED, new_count>>
             ELSE IF _is_healthy(primary, healthy)
             THEN <<HAPPY, new_count>>
             ELSE <<STRESSED, new_count>>

\* ---------------------------------------------------------------------------
\* Inputs of the state machine.  A PrimarySignals record holds the fields the
\* state machine reads (the p95 latencies, poll_success_rate, long_poll_latency
\* and retry_rate are never read by it).
\* ---------------------------------------------------------------------------
PrimarySignals(thr, st_p99, cr, succ, failed, backlog, proc, churn, fe_err, fe_p99, wf_age, act_age, poll_to, pers_p99, pers_err) ==
    [ state_transitions   |-> [throughput_per_sec |-> thr, latency_p99_ms |-> st_p99],
      workflow_completion |-> [completion_rate |-> cr, success_per_sec |-> succ,
                               failed_per_sec |-> failed],
      history             |-> [backlog_age_sec |-> backlog,
                               task_processing_rate_per_sec |-> proc,
                               shard_churn_rate_per_sec |-> churn],
      frontend            |-> [error_rate_per_sec |-> fe_err, latency_p99_ms |-> fe_p99],
      matching            |-> [workflow_backlog_age_sec |-> wf_age,
                               activity_backlog_age_sec |-> act_age],
      poller              |-> [poll_timeout_rate |-> poll_to],
      persistence         |-> [latency_p99_ms |-> pers_p99, error_rate_per_sec |-> pers_err] ]

\* The fixtures of tests/properties/test_state_machine.py and the scenarios of
\* the specification.
healthy_signals == PrimarySignals(2000, 20, 99, 1000, 1, 10, 2000, 0, 0, 80, 0, 0, 1, 20, 0)
critical_throughput_signals == PrimarySignals(10, 20, 99, 1000, 0, 10, 2000, 0, 0, 80, 0, 0, 1, 20, 0)
idle_signals == PrimarySignals(0, 0, 100, 0, 0, 0, 0, 0, 0, 0, 0, 0, 0, 0, 0)
ramp_up_signals == PrimarySignals(1000, 80, 20, 20, 5, 50, 1000, 0, 0, 80, 0, 0, 1, 20, 0)
sudden_collapse_signals == PrimarySignals(0, 20, 99, 1000, 0, 5000, 2000, 0, 0, 80, 0, 0, 1, 20, 0)

BaseSignals == {healthy_signals, critical_throughput_signals, idle_signals, ramp_up_signals, sudden_collapse_signals}

\* Per field, values on both sides of (and on) every threshold the field is
\* compared with.
FieldValues ==
    [ state_transitions   |-> [throughput_per_sec |-> {0, 10, 100, 150, 500, 1000},
                               latency_p99_ms |-> {500, 501}],
      workflow_completion |-> [completion_rate |-> {20, 50, 95},
                               success_per_sec |-> {0, 20, 1000},
                               failed_per_sec |-> {0, 1, 50}],
      history             |-> [backlog_age_sec |-> {0, 10, 50, 100, 300, 301, 900, 1200, 5000},
                               task_processing_rate_per_sec |-> {0, 10, 100, 150, 1000},
                               shard_churn_rate_per_sec |-> {50, 51}],
      frontend            |-> [error_rate_per_sec |-> {0, 1}, latency_p99_ms |-> {1000, 1001}],
      matching            |-> [workflow_backlog_age_sec |-> {0, 10},
                               activity_backlog_age_sec |-> {0, 10}],
      poller              |-> [poll_timeout_rate |-> {10, 11}],
      persistence         |-> [latency_p99_ms |-> {100, 101},
                               error_rate_per_sec |-> {0, 1, 100, 101}] ]

\* The signals that differ from a signal of S in at most one field.
Deviate(S) ==
    S \cup UNION { UNION { UNION { { [s EXCEPT ![g][f] = v] : v \in FieldValues[g][f] }
                                   : f \in DOMAIN FieldValues[g] }
                           : g \in DOMAIN FieldValues }
                   : s \in S }

SignalInputs == Deviate(Deviate(BaseSignals))

\* Largest counter value passed to evaluate_health_state.
MaxCount == 10

NoRet == <<>>

\* ---------------------------------------------------------------------------
\* Workflow runtime and state store
\* ---------------------------------------------------------------------------
\* Last value of workflow.now() the model reaches.
MaxTicks == 2
\* Attempts the runtime makes of one store_health_assessment call.
MaxAttempts == 2

\* Python's None, and the exception an activity call raises after its retries.
None == [kind |-> "None"]
ActivityError == [kind |-> "ActivityError"]
\* A local variable of run() that no statement has assigned yet.
Unassigned == "unassigned"

\* A Signals value: the primary record and the time it was fetched (the
\* amplifiers are carried along by the source but never read by a decision).
Signals(primary, t) == [primary |-> primary, timestamp |-> t]

\* models/assessment.py HealthAssessment: the fields the store and the
\* workflows read.  `summary` tells the three kinds of prose apart.
HealthAssessment(t, trigger, health_state, primary, issues, summary) ==
    [ timestamp |-> t, trigger |-> trigger, health_state |-> health_state,
      primary_signals |-> primary, issues |-> issues,
      natural_language_summary |-> summary ]

\* store_health_assessment, the INSERT INTO health_assessments: a new row with
\* a fresh id (uuid4) is appended; no statement updates or deletes a row.
insert_health_assessment(table, a) ==
    Append(table, [ id |-> Len(table) + 1,
                    timestamp |-> a.timestamp,
                    trigger |-> a.trigger,
                    overall_status |-> a.health_state,
                    primary_signals |-> a.primary_signals,
                    natural_language_summary |-> a.natural_language_summary ])

\* Mutation: ORDER BY timestamp ASC, the oldest row.
get_latest_assessment_oldest(table) ==
    IF table = <<>>
    THEN {None}
    ELSE { HealthAssessment(table[i].timestamp, table[i].trigger, table[i].overall_status,
                            table[i].primary_signals, 0, table[i].natural_language_summary) :
             i \in { j \in DOMAIN table :
                       \A k \in DOMAIN table : table[j].timestamp <= table[k].timestamp } }

\* get_latest_assessment: ORDER BY timestamp DESC LIMIT 1.  The set of values
\* the activity can return: None on an empty table, else the assessment built
\* from a row of greatest timestamp (any of them when several tie); issues
\* are not read back.
get_latest_assessment(table) ==
    IF table = <<>>
    THEN {None}
    ELSE { HealthAssessment(table[i].timestamp, table[i].trigger, table[i].overall_status,
                            table[i].primary_signals, 0, table[i].natural_language_summary) :
             i \in { j \in DOMAIN table :
                       \A k \in DOMAIN table : table[k].timestamp <= table[j].timestamp } }

\* store_signals_snapshot, the INSERT INTO metrics_snapshots.
insert_metrics_snapshot(table, sig) ==
    Append(table, [id |-> Len(table) + 1, timestamp |-> sig.timestamp, metrics |-> sig.primary])

\* ---------------------------------------------------------------------------
\* workflows/assess.py : AssessHealthWorkflow
\* ---------------------------------------------------------------------------
_create_minimal_assessment(health_state, sig, trigger) ==
    HealthAssessment(now, trigger, health_state, sig.primary, 0, "minimal")

_create_quick_assessment(health_state, sig, trigger) ==
    HealthAssessment(now, trigger, health_state, sig.primary, 0, "quick")

\* The dispatcher's output: one of the three tagged variants, or a value that
\* is none of them.
DispatcherOutputs == {"NoExplanationNeeded", "QuickExplanation", "NeedsDeepExplanation", "Other"}

RawString == [kind |-> "str"]

\* What the researcher can return: a raw string, or a HealthAssessment whose
\* fields are the narrator's own (state, trigger, timestamp and snapshot may
\* all be made up).
hallucinated_signals == ramp_up_signals
ResearcherOutputs ==
    {RawString} \cup { HealthAssessment(0 - 1, "made_up", h, hallucinated_signals, i, "narrator") :
                         h \in HealthState, i \in {0, 1} }

\* Mutation: the narrator's health_state is kept.
override_hallucinated_keep_state(output, input) ==
    [ output EXCEPT !.timestamp = now,
                    !.trigger = input.trigger,
                    !.primary_signals = input.signals.primary ]

\* run(), lines 219-228: the researcher's assessment with the fields the LLM
\* may have hallucinated overwritten by the authoritative ones.
override_hallucinated(output, input) ==
    [ output EXCEPT !.timestamp = now,
                    !.health_state = input.health_state,
                    !.trigger = input.trigger,
                    !.primary_signals = input.signals.primary ]

AssessHealthInput(health_state, sig, trigger) ==
    [health_state |-> health_state, signals |-> sig, trigger |-> trigger]

\* A run of AssessHealthWorkflow: its input, where it is suspended, the
\* researcher's output (research_result.output), the local `assessment`, the
\* attempts made of the store activity, the ids of the rows those attempts
\* inserted, the id the store activity returned (a set, empty until it
\* returns), and the value the run returned.
NewRun(input) ==
    [ input |-> input, pc |-> "dispatch", output |-> None, assessment |-> None,
      attempts |-> 0, rows |-> {}, assessment_id |-> {}, result |-> None ]

\* await temporal_dispatcher.run(...) returns, and run() continues to its next
\* suspension point: the researcher for NeedsDeepExplanation (the three context
\* fetches before it only feed the prompt and swallow their failures), the
\* store activity otherwise.
DispatcherReturns(c, output) ==
    /\ children[c].pc = "dispatch"
    /\ LET input == children[c].input
       IN  children' = [children EXCEPT ![c] =
             IF output = "NoExplanationNeeded"
             THEN [@ EXCEPT !.pc = "store",
                            !.assessment = _create_minimal_assessment(input.health_state, input.signals, input.trigger)]
             ELSE IF output = "QuickExplanation"
             THEN [@ EXCEPT !.pc = "store",
                            !.assessment = _create_quick_assessment(input.health_state, input.signals, input.trigger)]
             ELSE IF output = "NeedsDeepExplanation"
             THEN [@ EXCEPT !.pc = "research"]
             ELSE [@ EXCEPT !.pc = "store",
                            !.assessment = _create_minimal_assessment(input.health_state, input.signals, input.trigger)]]
    /\ UNCHANGED <<now, storeVars, obsVars, evalVars, otherVars>>

\* await temporal_dispatcher.run(...) raises: nothing in run() catches it.
DispatcherRaises(c) ==
    /\ children[c].pc = "dispatch"
    /\ children' = [children EXCEPT ![c].pc = "failed"]
    /\ UNCHANGED <<now, storeVars, obsVars, evalVars, otherVars>>

\* await temporal_researcher.run(...) returns.
ResearcherReturns(c, output) ==
    /\ children[c].pc = "research"
    /\ LET input == children[c].input
       IN  children' = [children EXCEPT ![c] =
             IF output = RawString
             THEN [@ EXCEPT !.pc = "store", !.output = output,
                            !.assessment = _create_minimal_assessment(input.health_state, input.signals, input.trigger)]
             ELSE [@ EXCEPT !.pc = "store", !.output = output,
                            !.assessment = override_hallucinated(output, input)]]
    /\ UNCHANGED <<now, storeVars, obsVars, evalVars, otherVars>>

\* await temporal_researcher.run(...) raises: nothing in run() catches it.
ResearcherRaises(c) ==
    /\ children[c].pc = "research"
    /\ children' = [children EXCEPT ![c].pc = "failed"]
    /\ UNCHANGED <<now, storeVars, obsVars, evalVars, otherVars>>

\* An attempt of store_health_assessment succeeds: the row is inserted, the
\* activity returns and run() returns the assessment.
StoreAssessmentReturns(c) ==
    /\ children[c].pc = "store"
    /\ health_assessments' = insert_health_assessment(health_assessments, children[c].assessment)
    /\ children' = [children EXCEPT ![c].pc = "done",
                                    ![c].attempts = @ + 1,
                                    ![c].rows = @ \cup {Len(health_assessments) + 1},
                                    ![c].assessment_id = {Len(health_assessments) + 1},
                                    ![c].result = children[c].assessment]
    /\ UNCHANGED <<now, metrics_snapshots, obsVars, evalVars, otherVars>>

\* An attempt of store_health_assessment fails, before the INSERT (no
\* connection) or after it (an issue INSERT, the close or the timeout).  The
\* runtime retries it, or gives up and raises into run(), whose except clause
\* logs the error; run() then returns the assessment.
StoreAssessmentAttemptFails(c, inserted, final) ==
    /\ children[c].pc = "store"
    /\ final \/ children[c].attempts + 1 < MaxAttempts
    /\ health_assessments' = IF inserted
                             THEN insert_health_assessment(health_assessments, children[c].assessment)
                             ELSE health_assessments
    /\ children' = [children EXCEPT ![c].attempts = @ + 1,
                                    ![c].rows = IF inserted THEN @ \cup {Len(health_assessments) + 1} ELSE @,
                                    ![c].pc = IF final THEN "done" ELSE "store",
                                    ![c].result = IF final THEN children[c].assessment ELSE None]
    /\ UNCHANGED <<now, metrics_snapshots, obsVars, evalVars, otherVars>>

AssessStep(c) ==
    \/ \E output \in DispatcherOutputs : DispatcherReturns(c, output)
    \/ DispatcherRaises(c)
    \/ \E output \in ResearcherOutputs : ResearcherReturns(c, output)
    \/ ResearcherRaises(c)
    \/ StoreAssessmentReturns(c)
    \/ \E inserted \in BOOLEAN : \E final \in BOOLEAN : StoreAssessmentAttemptFails(c, inserted, final)

\* ---------------------------------------------------------------------------
\* workflows/observe.py : ObserveClusterWorkflow
\* ---------------------------------------------------------------------------
\* __init__: self._window_size
_window_size == 10

\* The primary signals fetch_signals_from_amp returns in the model: a healthy
\* and a collapsed test fixture, and a recovering signal that is healthy
\* except for a processing rate inside the hysteresis band.
recovering_signals == [healthy_signals EXCEPT !.history.task_processing_rate_per_sec = 100]
ObservedSignals == {healthy_signals, critical_throughput_signals, recovering_signals}

NoError == [at |-> 0 - 1, error |-> "none"]

\* Mutation: an exception inside the loop body leaves run().
except_Exception_propagates == "terminated"

\* run(), lines 121-124: `except Exception` logs the error and falls through
\* to the sleep at the end of the loop body.
except_Exception == "sleep"

\* _reconcile_stored_state: get_latest_assessment returns `latest` (None or an
\* assessment); the stored state is adopted if there is one.
ReconcileReturns(latest) ==
    /\ obs_pc = "reconcile"
    /\ latest \in get_latest_assessment(health_assessments)
    /\ assessment' = latest
    /\ _current_state' = IF latest # None THEN latest.health_state ELSE _current_state
    /\ _reconciled' = TRUE
    /\ obs_pc' = "fetch"
    /\ UNCHANGED <<_signal_window, _consecutive_critical_count, signals, new_state, obs_log>>
    /\ UNCHANGED <<now, storeVars, children, evalVars, otherVars>>

\* _reconcile_stored_state: the activity raises; the except clause logs a
\* warning and the workflow starts at HAPPY.
ReconcileRaises ==
    /\ obs_pc = "reconcile"
    /\ assessment' = ActivityError
    /\ _reconciled' = TRUE
    /\ obs_pc' = "fetch"
    /\ UNCHANGED <<_current_state, _signal_window, _consecutive_critical_count, signals, new_state, obs_log>>
    /\ UNCHANGED <<now, storeVars, children, evalVars, otherVars>>

\* fetch_signals_from_amp returns; run() goes on to store_signals_snapshot.
FetchSignalsReturns(primary) ==
    /\ obs_pc = "fetch"
    /\ signals' = Signals(primary, now)
    /\ obs_pc' = "store"
    /\ UNCHANGED <<_current_state, _reconciled, _signal_window, _consecutive_critical_count, new_state, assessment, obs_log>>
    /\ UNCHANGED <<now, storeVars, children, evalVars, otherVars>>

\* fetch_signals_from_amp raises.
FetchSignalsRaises ==
    /\ obs_pc = "fetch"
    /\ obs_log' = [at |-> now, error |-> "fetch_signals_from_amp"]
    /\ obs_pc' = except_Exception
    /\ UNCHANGED <<_current_state, _reconciled, _signal_window, _consecutive_critical_count, signals, new_state, assessment>>
    /\ UNCHANGED <<now, storeVars, children, evalVars, otherVars>>

\* store_signals_snapshot returns; run() appends to the sliding window,
\* evaluates the state machine and, if the state changed, starts the child.
StoreSnapshotReturns ==
    /\ obs_pc = "store"
    /\ metrics_snapshots' = insert_metrics_snapshot(metrics_snapshots, signals)
    /\ LET appended == Append(_signal_window, signals)
           ret == evaluate_health_state(signals.primary, _current_state, CriticalThresholds, StressedThresholds, HealthyThresholds, _consecutive_critical_count)
       IN  /\ _signal_window' = IF Len(appended) > _window_size THEN Tail(appended) ELSE appended
           /\ new_state' = ret[1]
           /\ _consecutive_critical_count' = ret[2]
           /\ obs_pc' = IF ret[1] # _current_state THEN "start_child" ELSE "sleep"
    /\ UNCHANGED <<_current_state, _reconciled, signals, assessment, obs_log>>
    /\ UNCHANGED <<now, health_assessments, children, evalVars, otherVars>>

\* store_signals_snapshot raises, with or without the row inserted.
StoreSnapshotRaises(inserted) ==
    /\ obs_pc = "store"
    /\ metrics_snapshots' = IF inserted THEN insert_metrics_snapshot(metrics_snapshots, signals)
                                        ELSE metrics_snapshots
    /\ obs_log' = [at |-> now, error |-> "store_signals_snapshot"]
    /\ obs_pc' = except_Exception
    /\ UNCHANGED <<_current_state, _reconciled, _signal_window, _consecutive_critical_count, signals, new_state, assessment>>
    /\ UNCHANGED <<now, health_assessments, children, evalVars, otherVars>>

\* start_child_workflow returns: the child runs, and the new state is adopted.
StartChildReturns ==
    /\ obs_pc = "start_child"
    /\ children' = Append(children, NewRun(AssessHealthInput(new_state, signals, "state_change")))
    /\ _current_state' = new_state
    /\ obs_pc' = "sleep"
    /\ UNCHANGED <<_reconciled, _signal_window, _consecutive_critical_count, signals, new_state, assessment, obs_log>>
    /\ UNCHANGED <<now, storeVars, evalVars, otherVars>>

\* Mutation: the child is started although the await raises.
StartChildRaises_child_started ==
    /\ obs_pc = "start_child"
    /\ children' = Append(children, NewRun(AssessHealthInput(new_state, signals, "state_change")))
    /\ obs_log' = [at |-> now, error |-> "start_child_workflow"]
    /\ obs_pc' = except_Exception
    /\ UNCHANGED <<_current_state, _reconciled, _signal_window, _consecutive_critical_count, signals, new_state, assessment>>
    /\ UNCHANGED <<now, storeVars, evalVars, otherVars>>

\* start_child_workflow raises: no child, and _current_state is not assigned.
StartChildRaises ==
    /\ obs_pc = "start_child"
    /\ obs_log' = [at |-> now, error |-> "start_child_workflow"]
    /\ obs_pc' = except_Exception
    /\ UNCHANGED <<_current_state, _reconciled, _signal_window, _consecutive_critical_count, signals, new_state, assessment>>
    /\ UNCHANGED <<now, storeVars, children, evalVars, otherVars>>

\* workflow.sleep(30 s) returns and the loop body starts again.
Sleep ==
    /\ obs_pc = "sleep"
    /\ now < MaxTicks
    /\ now' = now + 1
    /\ obs_pc' = "fetch"
    /\ UNCHANGED <<_current_state, _reconciled, _signal_window, _consecutive_critical_count, signals, new_state, assessment, obs_log>>
    /\ UNCHANGED <<storeVars, children, evalVars, otherVars>>

\* @workflow.query current_state and signal_window_size: answered from the
\* attributes as they are, also while run() is suspended.
query_current_state == _current_state
query_signal_window_size == Len(_signal_window)

\* The methods of ObserveClusterWorkflow decorated with @workflow.query.
query_handlers == {"current_state", "signal_window_size"}

\* The queries a client sends: the two above and one for the debounce counter.
QueryNames == {"current_state", "signal_window_size", "consecutive_critical_count"}

QueryReply(query, failed, value) == [ query |-> query, failed |-> failed, value |-> value ]
NoReply == QueryReply("<none>", FALSE, <<>>)

\* A client queries the running workflow.  A registered handler is called
\* and its return value is the answer; for a name with no handler the
\* runtime fails the query.  Nothing of the workflow is assigned.
Query(name) ==
    /\ query_reply' = IF name \notin query_handlers THEN QueryReply(name, TRUE, <<>>)
                      ELSE IF name = "current_state" THEN QueryReply(name, FALSE, <<query_current_state>>)
                      ELSE QueryReply(name, FALSE, <<query_signal_window_size>>)
    /\ UNCHANGED queryOutside

ObserveStep ==
    \/ \E latest \in get_latest_assessment(health_assessments) : ReconcileReturns(latest)
    \/ ReconcileRaises
    \/ \E primary \in ObservedSignals : FetchSignalsReturns(primary)
    \/ FetchSignalsRaises
    \/ StoreSnapshotReturns
    \/ \E inserted \in BOOLEAN : StoreSnapshotRaises(inserted)
    \/ StartChildReturns
    \/ StartChildRaises
    \/ Sleep

\* ---------------------------------------------------------------------------
\* starter.py : start_workflows, worker.py : _start_workflows
\* ---------------------------------------------------------------------------
\* Processes that call start_workflows in the model.
MaxStarters == 3

OBSERVE_WORKFLOW_ID == "copilot-observe-cluster"
LOG_WATCHER_WORKFLOW_ID == "copilot-log-watcher"
SCHEDULED_WORKFLOW_ID == "copilot-scheduled-assessment"
WorkflowIds == {OBSERVE_WORKFLOW_ID, LOG_WATCHER_WORKFLOW_ID, SCHEDULED_WORKFLOW_ID}

\* The running executions of workflow `id`.
Running(id) == { e \in executions : e.id = id }

\* Mutation: the default conflict policy FAIL, the call raises
\* WorkflowAlreadyStartedError when `id` is running.
start_workflow_FAIL(p, id) ==
    IF Running(id) # {}
    THEN [execs |-> executions, raised |-> TRUE]
    ELSE [execs |-> executions \cup {[id |-> id, started_by |-> p]}, raised |-> FALSE]

\* client.start_workflow(..., id=id, id_conflict_policy=USE_EXISTING), one
\* request the server serves atomically: a new execution if none with this id
\* is running, the handle of the running one otherwise.
start_workflow(p, id) ==
    IF Running(id) # {}
    THEN [execs |-> executions, raised |-> FALSE]
    ELSE [execs |-> executions \cup {[id |-> id, started_by |-> p]}, raised |-> FALSE]

\* A starter (python -m copilot.starter) or a worker boot calls
\* start_workflows with its environment; without AMP_ENDPOINT or
\* DSQL_ENDPOINT the function returns at once.
StartWorkflowsCalled(kind, amp_endpoint, dsql_endpoint, loki_url) ==
    /\ Len(starters) < MaxStarters
    /\ starters' = Append(starters, [ kind |-> kind, amp_endpoint |-> amp_endpoint,
                                      dsql_endpoint |-> dsql_endpoint, loki_url |-> loki_url,
                                      pc |-> IF amp_endpoint /\ dsql_endpoint THEN "observe" ELSE "returned" ])
    /\ UNCHANGED <<executions, startOutside>>

\* 1. start ObserveClusterWorkflow; then the `if loki_url` test.
StartObserveCluster(p) ==
    /\ starters[p].pc = "observe"
    /\ LET r == start_workflow(p, OBSERVE_WORKFLOW_ID)
       IN  /\ executions' = r.execs
           /\ starters' = [starters EXCEPT ![p].pc = IF r.raised THEN "raised"
                                                     ELSE IF starters[p].loki_url THEN "log_watcher"
                                                     ELSE "scheduled"]
    /\ UNCHANGED startOutside

\* 2. start LogWatcherWorkflow.
StartLogWatcher(p) ==
    /\ starters[p].pc = "log_watcher"
    /\ LET r == start_workflow(p, LOG_WATCHER_WORKFLOW_ID)
       IN  /\ executions' = r.execs
           /\ starters' = [starters EXCEPT ![p].pc = IF r.raised THEN "raised" ELSE "scheduled"]
    /\ UNCHANGED startOutside

\* 3. start ScheduledAssessmentWorkflow; the function returns.
StartScheduledAssessment(p) ==
    /\ starters[p].pc = "scheduled"
    /\ LET r == start_workflow(p, SCHEDULED_WORKFLOW_ID)
       IN  /\ executions' = r.execs
           /\ starters' = [starters EXCEPT ![p].pc = IF r.raised THEN "raised" ELSE "returned"]
    /\ UNCHANGED startOutside

NextStart ==
    \/ \E kind \in {"starter", "worker"} : \E amp_endpoint \in BOOLEAN : \E dsql_endpoint \in BOOLEAN : \E loki_url \in BOOLEAN :
          StartWorkflowsCalled(kind, amp_endpoint, dsql_endpoint, loki_url)
    \/ \E p \in DOMAIN starters : StartObserveCluster(p)
    \/ \E p \in DOMAIN starters : StartLogWatcher(p)
    \/ \E p \in DOMAIN starters : StartScheduledAssessment(p)

\* ---------------------------------------------------------------------------
\* workflows/scheduled.py : ScheduledAssessmentWorkflow
\* In the specification of this workflow `now` counts minutes.
\* ---------------------------------------------------------------------------
\* Last minute the model reaches.
MaxMinutes == 5
\* AssessHealthWorkflow runs started next to the scheduled workflow.
MaxRuns == 2

\* CheckRecentAssessmentInput(window=TimeDelta(minutes=4))
RECENT_WINDOW == 4
\* workflow.sleep(TimeDelta(minutes=5))
SCHEDULED_SLEEP == 5

\* check_recent_assessment: COUNT(*) of the rows with timestamp >= cutoff,
\* cutoff = Instant.now() - window, is positive.
check_recent_assessment(table, t) ==
    \E i \in DOMAIN table : table[i].timestamp >= t - RECENT_WINDOW

\* check_recent_assessment returns: a recent assessment skips the cycle, none
\* goes on to fetch the signals.
ScheduledCheckReturns ==
    /\ sched_pc = "check"
    /\ IF check_recent_assessment(health_assessments, now)
       THEN sched_pc' = "sleep" /\ sched_timer' = now + SCHEDULED_SLEEP
       ELSE sched_pc' = "fetch" /\ UNCHANGED sched_timer
    /\ UNCHANGED <<sched_signals, now, storeVars, obsVars, children, evalVars, schedOthers>>

\* An activity or the child start raises: `except Exception` logs, the sleep
\* follows.
ScheduledAwaitRaises ==
    /\ sched_pc \in {"check", "fetch", "start_child"}
    /\ sched_pc' = "sleep"
    /\ sched_timer' = now + SCHEDULED_SLEEP
    /\ UNCHANGED <<sched_signals, now, storeVars, obsVars, children, evalVars, schedOthers>>

\* fetch_signals_from_amp returns.
ScheduledFetchReturns(primary) ==
    /\ sched_pc = "fetch"
    /\ sched_signals' = Signals(primary, now)
    /\ sched_pc' = "start_child"
    /\ UNCHANGED <<sched_timer, now, storeVars, obsVars, children, evalVars, schedOthers>>

\* The state is evaluated from HAPPY with count 0, and start_child_workflow
\* returns: the child runs with trigger "scheduled".
ScheduledStartChildReturns ==
    /\ sched_pc = "start_child"
    /\ Len(children) < MaxRuns
    /\ LET health_state == evaluate_health_state(sched_signals.primary, HAPPY, CriticalThresholds, StressedThresholds, HealthyThresholds, 0)[1]
       IN  children' = Append(children, NewRun(AssessHealthInput(health_state, sched_signals, "scheduled")))
    /\ sched_pc' = "sleep"
    /\ sched_timer' = now + SCHEDULED_SLEEP
    /\ UNCHANGED <<sched_signals, now, storeVars, obsVars, evalVars, schedOthers>>

\* The timer of workflow.sleep fires, not before its time.
ScheduledSleepReturns ==
    /\ sched_pc = "sleep"
    /\ now >= sched_timer
    /\ sched_pc' = "check"
    /\ UNCHANGED <<sched_signals, sched_timer, now, storeVars, obsVars, children, evalVars, schedOthers>>

\* ObserveClusterWorkflow, running next to the scheduled workflow, detects a
\* state change and starts its child (StartChildReturns).
ObserverStartsChild(health_state, primary) ==
    /\ Len(children) < MaxRuns
    /\ children' = Append(children, NewRun(AssessHealthInput(health_state, Signals(primary, now), "state_change")))
    /\ UNCHANGED <<schedVars, now, storeVars, obsVars, evalVars, schedOthers>>

\* A minute passes.
MinutePasses ==
    /\ now < MaxMinutes
    /\ now' = now + 1
    /\ UNCHANGED <<schedVars, storeVars, obsVars, children, evalVars, schedOthers>>

\* The runs next to the scheduled workflow take a triage path and store at
\* the first attempt; the other paths of a run are those of SpecAssess.
ScheduledRunStep(c) ==
    \/ \E output \in {"NoExplanationNeeded", "QuickExplanation"} : DispatcherReturns(c, output)
    \/ StoreAssessmentReturns(c)

NextScheduled ==
    \/ ScheduledCheckReturns
    \/ ScheduledAwaitRaises
    \/ \E primary \in {healthy_signals, critical_throughput_signals} : ScheduledFetchReturns(primary)
    \/ ScheduledStartChildReturns
    \/ ScheduledSleepReturns
    \/ \E health_state \in {STRESSED} : ObserverStartsChild(health_state, critical_throughput_signals)
    \/ MinutePasses
    \/ \E c \in DOMAIN children : ScheduledRunStep(c)

\* ---------------------------------------------------------------------------
\* behaviour_profiles/storage.py : ProfileStorage
\* ---------------------------------------------------------------------------
\* Rows of behaviour_profiles, and calls of set_baseline, in the model.
MaxProfiles == 3
MaxBaselineCalls == 2

\* SQL NULL in the column namespace (BehaviourProfile.namespace is None).
NULL == "<NULL>"
Namespaces == {"default", "", NULL}
ClusterIds == {"cluster-1"}

\* The two UPDATE ... SET is_baseline = FALSE statements of set_baseline: for a
\* truthy namespace the rows of that cluster and namespace, otherwise the rows
\* of that cluster whose namespace IS NULL.
clear_previous_baseline(table, row) ==
    [ i \in DOMAIN table |->
        IF /\ table[i].cluster_id = row.cluster_id
           /\ table[i].is_baseline
           /\ IF row.namespace \notin {NULL, ""}
              THEN table[i].namespace = row.namespace
              ELSE table[i].namespace = NULL
        THEN [table[i] EXCEPT !.is_baseline = FALSE]
        ELSE table[i] ]

\* profile.model_dump_json(): the fields of the document the model follows;
\* a bool is written as the JSON literal true or false.
model_dump_json(cluster_id, namespace, is_baseline) ==
    [ cluster_id |-> cluster_id, namespace |-> namespace,
      is_baseline |-> IF is_baseline THEN "true" ELSE "false" ]

\* BehaviourProfile.model_validate_json(body).
model_validate_json(body) ==
    [ cluster_id |-> body.cluster_id, namespace |-> body.namespace,
      is_baseline |-> body.is_baseline = "true" ]

\* get(profile_id): the full profile, parsed from the object in the bucket;
\* the table is not read.
get(bucket, profile_id) ==
    model_validate_json(bucket[profile_id])

\* save(profile): put_object of the full document, then the INSERT of the
\* metadata row, is_baseline as the profile carries it; the id is fresh
\* (uuid4 in create_profile).
save(cluster_id, namespace, is_baseline) ==
    /\ Len(behaviour_profiles) < MaxProfiles
    /\ s3_objects' = Append(s3_objects, model_dump_json(cluster_id, namespace, is_baseline))
    /\ behaviour_profiles' = Append(behaviour_profiles, [cluster_id |-> cluster_id, namespace |-> namespace, is_baseline |-> is_baseline])
    /\ UNCHANGED <<baseline_calls, profOutside>>

\* set_baseline(profile_id) is called and acquires a connection.
SetBaselineCalled(profile_id) ==
    /\ Len(baseline_calls) < MaxBaselineCalls
    /\ baseline_calls' = Append(baseline_calls, [profile_id |-> profile_id, pc |-> "select", row |-> None, cleared |-> {}])
    /\ UNCHANGED <<behaviour_profiles, s3_objects, profOutside>>

\* SELECT cluster_id, namespace WHERE id = $1; no row raises ValueError.
SetBaselineSelect(c) ==
    /\ baseline_calls[c].pc = "select"
    /\ baseline_calls' = [baseline_calls EXCEPT ![c] =
          IF baseline_calls[c].profile_id \in DOMAIN behaviour_profiles
          THEN [@ EXCEPT !.pc = "clear", !.row = behaviour_profiles[baseline_calls[c].profile_id]]
          ELSE [@ EXCEPT !.pc = "raised"]]
    /\ UNCHANGED <<behaviour_profiles, s3_objects, profOutside>>

\* The UPDATE that clears the previous baseline, a statement of its own.
SetBaselineClear(c) ==
    /\ baseline_calls[c].pc = "clear"
    /\ behaviour_profiles' = clear_previous_baseline(behaviour_profiles, baseline_calls[c].row)
    /\ baseline_calls' = [baseline_calls EXCEPT ![c].pc = "set",
                                                ![c].cleared = { i \in DOMAIN behaviour_profiles :
                                                                  behaviour_profiles'[i] # behaviour_profiles[i] }]
    /\ UNCHANGED <<s3_objects, profOutside>>

\* The UPDATE that sets the new baseline, a statement of its own; the call
\* returns the metadata.  No statement of set_baseline writes to the bucket.
SetBaselineSet(c) ==
    /\ baseline_calls[c].pc = "set"
    /\ behaviour_profiles' = [behaviour_profiles EXCEPT ![baseline_calls[c].profile_id].is_baseline = TRUE]
    /\ baseline_calls' = [baseline_calls EXCEPT ![c].pc = "returned"]
    /\ UNCHANGED <<s3_objects, profOutside>>

\* A statement of set_baseline raises (the connection is lost, the request is
\* cancelled): the call ends where it is, what it wrote stays written.
SetBaselineStatementRaises(c) ==
    /\ baseline_calls[c].pc \in {"select", "clear", "set"}
    /\ baseline_calls' = [baseline_calls EXCEPT ![c].pc = "raised"]
    /\ UNCHANGED <<behaviour_profiles, s3_objects, profOutside>>

\* create_profile saves profiles that are not baselines; set_baseline is
\* called for any id, by any number of requests at once.
NextProfiles ==
    \/ \E cluster_id \in ClusterIds : \E namespace \in Namespaces : save(cluster_id, namespace, FALSE)
    \/ \E profile_id \in 1..MaxProfiles : SetBaselineCalled(profile_id)
    \/ \E c \in DOMAIN baseline_calls : SetBaselineSelect(c)
    \/ \E c \in DOMAIN baseline_calls : SetBaselineClear(c)
    \/ \E c \in DOMAIN baseline_calls : SetBaselineSet(c)
    \/ \E c \in DOMAIN baseline_calls : SetBaselineStatementRaises(c)

\* ---------------------------------------------------------------------------
\* api.py : GET /status and the writers of the two tables it stands beside
\* ---------------------------------------------------------------------------
MaxStored == 2
MaxStatusCalls == 2

\* _fetch_latest_assessment: ORDER BY timestamp DESC LIMIT 1.  The dicts it can
\* return: None on an empty table, else the one built from a row of greatest
\* timestamp; primary_signals is read out of the row's metrics_snapshot column.
_fetch_latest_assessment(table) ==
    IF table = <<>>
    THEN {None}
    ELSE { [ id |-> table[i].id, timestamp |-> table[i].timestamp,
             health_state |-> table[i].overall_status,
             primary_signals |-> table[i].primary_signals ] :
             i \in { j \in DOMAIN table :
                       \A k \in DOMAIN table : table[k].timestamp <= table[j].timestamp } }

\* _is_cluster_idle on the nested (model_dump) format.
_is_cluster_idle(primary_signals) ==
    LET throughput == primary_signals.state_transitions.throughput_per_sec
        processing == primary_signals.history.task_processing_rate_per_sec
        frontend_errors == primary_signals.frontend.error_rate_per_sec
        persistence_errors == primary_signals.persistence.error_rate_per_sec
        backlog == primary_signals.history.backlog_age_sec
        wf_backlog == primary_signals.matching.workflow_backlog_age_sec
        act_backlog == primary_signals.matching.activity_backlog_age_sec
        has_no_throughput == throughput < 10 /\ processing < 10
        has_no_errors == frontend_errors < 1 /\ persistence_errors < 1
        has_no_backlog == backlog < 10 /\ wf_backlog < 10 /\ act_backlog < 10
    IN  has_no_throughput /\ has_no_errors /\ has_no_backlog

\* StatusResponse: the fields that do not come from the issues table.
StatusResponse(health_state, timestamp, primary_signals) ==
    [ health_state |-> health_state, timestamp |-> timestamp, primary_signals |-> primary_signals ]

\* get_status: the state it reports for the fetched assessment `a`.
get_status_health_state(a) ==
    IF a.health_state # HAPPY /\ _is_cluster_idle(a.primary_signals)
    THEN HAPPY
    ELSE a.health_state

\* GET /status.  The metrics_snapshots table is not read.
get_status ==
    /\ status_calls < MaxStatusCalls
    /\ \E a \in _fetch_latest_assessment(health_assessments) :
          status_response' =
              IF a = None
              THEN StatusResponse(HAPPY, now, None)
              ELSE StatusResponse(get_status_health_state(a), a.timestamp, a.primary_signals)
    /\ status_calls' = status_calls + 1
    /\ UNCHANGED <<now, storeVars, apiOutside>>

\* The signals the cluster shows to the observer while the API is watched.
ApiSignals == ObservedSignals \cup {idle_signals}

\* store_signals_snapshot, called by ObserveClusterWorkflow on every tick.
SnapshotStored(primary) ==
    /\ Len(metrics_snapshots) < MaxStored
    /\ metrics_snapshots' = insert_metrics_snapshot(metrics_snapshots, Signals(primary, now))
    /\ UNCHANGED <<now, health_assessments, apiVars, apiOutside>>

\* store_health_assessment, called by a run of AssessHealthWorkflow: the state
\* is the one the state machine derived from the signals of the run's input.
AssessmentStored(primary, current_state, consecutive_critical_count) ==
    /\ Len(health_assessments) < MaxStored
    /\ LET health_state == evaluate_health_state(primary, current_state, CriticalThresholds, StressedThresholds,
                                                 HealthyThresholds, consecutive_critical_count)[1]
       IN  health_assessments' =
             insert_health_assessment(health_assessments,
                 _create_minimal_assessment(health_state, Signals(primary, now), "state_change"))
    /\ UNCHANGED <<now, metrics_snapshots, apiVars, apiOutside>>

\* Time passes between the writes and the requests.
ClockAdvances ==
    /\ now < MaxTicks
    /\ now' = now + 1
    /\ UNCHANGED <<storeVars, apiVars, apiOutside>>

NextApi ==
    \/ get_status
    \/ \E primary \in ApiSignals : SnapshotStored(primary)
    \/ \E primary \in ApiSignals : \E current_state \in HealthState :
          \E consecutive_critical_count \in 0..CONSECUTIVE_CRITICAL_THRESHOLD :
            AssessmentStored(primary, current_state, consecutive_critical_count)
    \/ ClockAdvances

\* ---------------------------------------------------------------------------
\* dsql_config : registry.py, presets.py, modifiers.py
\* The keys every guard rail reads, and of each classification a key that is
\* and a key that is not named by a modifier.
\* ---------------------------------------------------------------------------
SLO == "slo"
TOPOLOGY == "topology"
SAFETY == "safety"
TUNING == "tuning"
ParameterClassification == <<SLO, TOPOLOGY, SAFETY, TUNING>>

\* ParameterEntry: classification, default_value and ParameterConstraints
\* (constrained is FALSE where the entry has no constraints).
ParameterEntry(classification, default_value, constrained, min_value, max_value) ==
    [ classification |-> classification, default_value |-> default_value,
      constrained |-> constrained, min_value |-> min_value, max_value |-> max_value ]

\* build_default_registry, in registration order within a classification.
RegistryKeys ==
    [ slo      |-> <<"target_state_transitions_per_sec", "max_e2e_workflow_latency_ms">>,
      topology |-> <<"history.replicas", "matching.replicas", "frontend.replicas", "worker.replicas",
                     "matching.numTaskqueueReadPartitions">>,
      safety   |-> <<"persistence.maxConns", "persistence.maxIdleConns", "dsql.reservoir_enabled",
                     "dsql.reservoir_target_ready", "dsql.reservoir_lifetime_jitter",
                     "dsql.distributed_rate_limiter_enabled", "dsql.distributed_rate_limiter_table">>,
      tuning   |-> <<"history.persistenceMaxQPS", "sdk.max_concurrent_activities",
                     "sdk.sticky_schedule_to_start_timeout">> ]

Registry ==
    [ target_state_transitions_per_sec |-> ParameterEntry(SLO, 50, TRUE, 1, 10000),
      max_e2e_workflow_latency_ms |-> ParameterEntry(SLO, 500, TRUE, 50, 300000) ] @@
    ( "history.replicas" :> ParameterEntry(TOPOLOGY, 4, TRUE, 1, 100) ) @@
    ( "matching.replicas" :> ParameterEntry(TOPOLOGY, 2, TRUE, 1, 50) ) @@
    ( "frontend.replicas" :> ParameterEntry(TOPOLOGY, 2, TRUE, 1, 50) ) @@
    ( "worker.replicas" :> ParameterEntry(TOPOLOGY, 2, TRUE, 1, 10) ) @@
    ( "matching.numTaskqueueReadPartitions" :> ParameterEntry(TOPOLOGY, 4, TRUE, 1, 64) ) @@
    ( "persistence.maxConns" :> ParameterEntry(SAFETY, 50, TRUE, 1, 500) ) @@
    ( "persistence.maxIdleConns" :> ParameterEntry(SAFETY, 50, TRUE, 1, 500) ) @@
    ( "dsql.reservoir_enabled" :> ParameterEntry(SAFETY, TRUE, FALSE, 0, 0) ) @@
    ( "dsql.reservoir_target_ready" :> ParameterEntry(SAFETY, 50, TRUE, 1, 500) ) @@
    ( "dsql.reservoir_lifetime_jitter" :> ParameterEntry(SAFETY, "2m", FALSE, 0, 0) ) @@
    ( "dsql.distributed_rate_limiter_enabled" :> ParameterEntry(SAFETY, FALSE, FALSE, 0, 0) ) @@
    ( "dsql.distributed_rate_limiter_table" :> ParameterEntry(SAFETY, "", FALSE, 0, 0) ) @@
    ( "history.persistenceMaxQPS" :> ParameterEntry(TUNING, 3000, TRUE, 100, 20000) ) @@
    ( "sdk.max_concurrent_activities" :> ParameterEntry(TUNING, 200, TRUE, 1, 2000) ) @@
    ( "sdk.sticky_schedule_to_start_timeout" :> ParameterEntry(TUNING, "5s", FALSE, 0, 0) )

\* A DerivationRule: its key and its expression, the expression given as its
\* text and as the value the literal branches of _evaluate_expression parse
\* the text to (the text itself when no literal form matches).
DerivationRule(key, text, parsed) == [ key |-> key, expression |-> [ text |-> text, parsed |-> parsed ] ]

\* A ScalePreset over the registry keys above: max_conns, reservoir_enabled,
\* the rate limiter pair and the QPS are what the three presets differ in.
ScalePreset(name, st, e2e, history, matching, frontend, worker, partitions, max_conns, reservoir_enabled, limiter_enabled, limiter_table, qps, activities) ==
    [ name |-> name,
      slo_defaults |-> [ target_state_transitions_per_sec |-> st, max_e2e_workflow_latency_ms |-> e2e ],
      topology_defaults |->
          ( "history.replicas" :> history ) @@ ( "matching.replicas" :> matching ) @@
          ( "frontend.replicas" :> frontend ) @@ ( "worker.replicas" :> worker ) @@
          ( "matching.numTaskqueueReadPartitions" :> partitions ),
      safety_derivations |->
          << DerivationRule("persistence.maxConns", "literal", max_conns),
             DerivationRule("persistence.maxIdleConns", "persistence.maxConns", "persistence.maxConns"),
             DerivationRule("dsql.reservoir_enabled", "literal", reservoir_enabled),
             DerivationRule("dsql.reservoir_target_ready", "literal", max_conns),
             DerivationRule("dsql.reservoir_lifetime_jitter", "literal", "2m"),
             DerivationRule("dsql.distributed_rate_limiter_enabled", "literal", limiter_enabled),
             DerivationRule("dsql.distributed_rate_limiter_table", "literal", limiter_table) >>,
      tuning_derivations |->
          << DerivationRule("history.persistenceMaxQPS", "literal", qps),
             DerivationRule("sdk.max_concurrent_activities", "literal", activities),
             DerivationRule("sdk.sticky_schedule_to_start_timeout", "literal", "5s") >> ]

STARTER == ScalePreset("starter", 25, 1000, 2, 2, 2, 1, 4, 10, FALSE, FALSE, "", 1000, 100)
MID_SCALE == ScalePreset("mid-scale", 150, 500, 6, 4, 3, 2, 8, 50, TRUE, FALSE, "", 6000, 200)
HIGH_THROUGHPUT ==
    ScalePreset("high-throughput", 1000, 300, 8, 6, 4, 2, 16, 50, TRUE, TRUE, "temporal-dsql-rate-limiter", 10000, 200)

PRESETS == ( "starter" :> STARTER ) @@ ( "mid-scale" :> MID_SCALE ) @@ ( "high-throughput" :> HIGH_THROUGHPUT )

\* modifiers.py: the adjustments of each WorkloadModifier to the keys above.
SIMPLE_CRUD ==
    [ name |-> "simple-crud",
      adjustments |-> ( "matching.numTaskqueueReadPartitions" :> 4 ) @@ ( "sdk.max_concurrent_activities" :> 100 ) ]
ORCHESTRATOR ==
    [ name |-> "orchestrator",
      adjustments |-> ( "matching.numTaskqueueReadPartitions" :> 8 ) @@ ( "sdk.max_concurrent_activities" :> 150 ) ]
BATCH_PROCESSOR ==
    [ name |-> "batch-processor",
      adjustments |-> ( "matching.numTaskqueueReadPartitions" :> 16 ) @@ ( "sdk.max_concurrent_activities" :> 500 ) ]
LONG_RUNNING ==
    [ name |-> "long-running",
      adjustments |-> ( "matching.numTaskqueueReadPartitions" :> 4 ) @@ ( "sdk.sticky_schedule_to_start_timeout" :> "10s" ) ]

MODIFIERS ==
    ( "simple-crud" :> SIMPLE_CRUD ) @@ ( "orchestrator" :> ORCHESTRATOR ) @@
    ( "batch-processor" :> BATCH_PROCESSOR ) @@ ( "long-running" :> LONG_RUNNING )

\* compile(..., modifier=None)
NoModifier == "<None>"

\* ---------------------------------------------------------------------------
\* dsql_config : compiler.py
\* ---------------------------------------------------------------------------
ResolvedParameter(key, value, classification, source) ==
    [ key |-> key, value |-> value, classification |-> classification, source |-> source ]

\* _evaluate_expression: a context reference wins, else the literal.
_evaluate_expression(expression, context) ==
    IF expression.text \in DOMAIN context THEN context[expression.text] ELSE expression.parsed

\* _resolve_all, the SLO loop: preset default, else registry default; the
\* override replaces it.
resolve_slo(preset, overrides, key) ==
    LET base_value == IF key \in DOMAIN preset.slo_defaults THEN preset.slo_defaults[key]
                      ELSE Registry[key].default_value
        final_value == IF key \in DOMAIN overrides THEN overrides[key] ELSE base_value
        source == IF key \in DOMAIN overrides THEN "override"
                  ELSE IF key \in DOMAIN preset.slo_defaults THEN "preset" ELSE "default"
    IN  ResolvedParameter(key, final_value, SLO, source)

\* _resolve_all, the Topology loop: preset, then modifier, then override.
resolve_topology(preset, modifier, overrides, key) ==
    LET adjusted == modifier # NoModifier /\ key \in DOMAIN MODIFIERS[modifier].adjustments
        preset_value == IF key \in DOMAIN preset.topology_defaults THEN preset.topology_defaults[key]
                        ELSE Registry[key].default_value
        base_value == IF adjusted THEN MODIFIERS[modifier].adjustments[key] ELSE preset_value
        final_value == IF key \in DOMAIN overrides THEN overrides[key] ELSE base_value
        source == IF key \in DOMAIN overrides THEN "override"
                  ELSE IF adjusted THEN "modifier"
                  ELSE IF key \in DOMAIN preset.topology_defaults THEN "preset" ELSE "default"
    IN  ResolvedParameter(key, final_value, TOPOLOGY, source)

\* _resolve_all, the Safety loop over rules[i..]: each rule is evaluated
\* against the context grown so far, the override replaces the value and is
\* what enters the context.  Returns the resolved list and the final context.
RECURSIVE resolve_safety(_, _, _, _, _)
resolve_safety(rules, i, overrides, derived_context, acc) ==
    IF i > Len(rules)
    THEN [ params |-> acc, derived_context |-> derived_context ]
    ELSE LET rule == rules[i]
             value == _evaluate_expression(rule.expression, derived_context)
             final_value == IF rule.key \in DOMAIN overrides THEN overrides[rule.key] ELSE value
             source == IF rule.key \in DOMAIN overrides THEN "override" ELSE "derived"
         IN  resolve_safety(rules, i + 1, overrides,
                            (rule.key :> final_value) @@ derived_context,
                            Append(acc, ResolvedParameter(rule.key, final_value, SAFETY, source)))

\* _resolve_all, the Tuning loop over rules[i..]: the modifier adjustment
\* replaces the derived value; `overrides` is not read.
RECURSIVE resolve_tuning(_, _, _, _, _)
resolve_tuning(rules, i, modifier, derived_context, acc) ==
    IF i > Len(rules)
    THEN acc
    ELSE LET rule == rules[i]
             adjusted == modifier # NoModifier /\ rule.key \in DOMAIN MODIFIERS[modifier].adjustments
             value == IF adjusted THEN MODIFIERS[modifier].adjustments[rule.key]
                      ELSE _evaluate_expression(rule.expression, derived_context)
             source == IF adjusted THEN "modifier" ELSE "derived"
         IN  resolve_tuning(rules, i + 1, modifier,
                            (rule.key :> value) @@ derived_context,
                            Append(acc, ResolvedParameter(rule.key, value, TUNING, source)))

\* Mutation: the safety derivations are evaluated against a context of derived
\* values; the overrides replace the values afterwards.
_resolve_all_context_of_derived_values(preset, modifier, overrides) ==
    LET derived == resolve_safety(preset.safety_derivations, 1, <<>>, <<>>, <<>>)
        overridden(p) == IF p.key \in DOMAIN overrides
                         THEN ResolvedParameter(p.key, overrides[p.key], SAFETY, "override")
                         ELSE p
    IN  [ slo      |-> [ i \in DOMAIN RegistryKeys.slo |-> resolve_slo(preset, overrides, RegistryKeys.slo[i]) ],
          topology |-> [ i \in DOMAIN RegistryKeys.topology |->
                           resolve_topology(preset, modifier, overrides, RegistryKeys.topology[i]) ],
          safety   |-> [ i \in DOMAIN derived.params |-> overridden(derived.params[i]) ],
          tuning   |-> resolve_tuning(preset.tuning_derivations, 1, modifier, derived.derived_context, <<>>) ]

\* _resolve_all: the four lists of ResolvedParameter.
_resolve_all(preset, modifier, overrides) ==
    LET safety == resolve_safety(preset.safety_derivations, 1, overrides, <<>>, <<>>)
    IN  [ slo      |-> [ i \in DOMAIN RegistryKeys.slo |-> resolve_slo(preset, overrides, RegistryKeys.slo[i]) ],
          topology |-> [ i \in DOMAIN RegistryKeys.topology |->
                           resolve_topology(preset, modifier, overrides, RegistryKeys.topology[i]) ],
          safety   |-> safety.params,
          tuning   |-> resolve_tuning(preset.tuning_derivations, 1, modifier, safety.derived_context, <<>>) ]

\* ConfigProfile: the four parameter lists (versions and compiled_at are not
\* read by any rule).
ConfigProfile(preset_name, modifier, overrides, resolved) ==
    [ preset_name |-> preset_name, modifier |-> modifier, overrides |-> overrides,
      slo_params |-> resolved.slo, topology_params |-> resolved.topology,
      safety_params |-> resolved.safety, tuning_params |-> resolved.tuning ]

\* ConfigProfile.all_params
all_params(profile) ==
    profile.slo_params \o profile.topology_params \o profile.safety_params \o profile.tuning_params

\* ConfigProfile.get_param: the first parameter with the key, as a sequence
\* of at most one element (empty for None).
get_param(profile, key) ==
    LET hits == SelectSeq(all_params(profile), LAMBDA p : p.key = key)
    IN  IF hits = <<>> THEN <<>> ELSE <<Head(hits)>>

\* ---------------------------------------------------------------------------
\* dsql_config : guard_rails.py
\* Every check returns a sequence: empty for None, else its one result.
\* ---------------------------------------------------------------------------
GuardRailResult(rule_name, severity) == [ rule_name |-> rule_name, severity |-> severity ]

\* A parameter is present and its value is truthy (a bool value).
enabled(p) == p # <<>> /\ p[1].value

\* Mutation: the rule never reports.
_check_max_idle_equals_max_conns_off(profile) == <<>>

_check_max_idle_equals_max_conns(profile) ==
    LET max_conns == get_param(profile, "persistence.maxConns")
        max_idle == get_param(profile, "persistence.maxIdleConns")
    IN  IF max_conns # <<>> /\ max_idle # <<>> /\ max_conns[1].value # max_idle[1].value
        THEN <<GuardRailResult("max_idle_equals_max_conns", "error")>>
        ELSE <<>>

\* The pool size the connection-limit rule counts per instance.
pool_per_instance(profile) ==
    LET reservoir_target == get_param(profile, "dsql.reservoir_target_ready")
        reservoir_enabled == get_param(profile, "dsql.reservoir_enabled")
        max_conns == get_param(profile, "persistence.maxConns")
    IN  IF ~enabled(reservoir_enabled)
        THEN (IF max_conns # <<>> THEN max_conns[1].value ELSE 50)
        ELSE (IF reservoir_target # <<>> THEN reservoir_target[1].value ELSE 50)

RECURSIVE sum_replicas(_, _, _)
sum_replicas(profile, keys, i) ==
    IF i > Len(keys)
    THEN 0
    ELSE LET p == get_param(profile, keys[i])
         IN  (IF p # <<>> THEN p[1].value ELSE 0) + sum_replicas(profile, keys, i + 1)

total_replicas(profile) ==
    sum_replicas(profile, <<"history.replicas", "matching.replicas", "frontend.replicas", "worker.replicas">>, 1)

\* Mutation: the limit is compared with the pool of one instance.
_check_cluster_connection_limit_one_instance(profile) ==
    IF pool_per_instance(profile) > 10000
    THEN <<GuardRailResult("cluster_connection_limit", "error")>>
    ELSE <<>>

_check_cluster_connection_limit(profile) ==
    LET total_connections == pool_per_instance(profile) * total_replicas(profile)
    IN  IF total_connections > 10000
        THEN <<GuardRailResult("cluster_connection_limit", "error")>>
        ELSE <<>>

_check_matching_partition_warning(profile) ==
    LET partitions == get_param(profile, "matching.numTaskqueueReadPartitions")
        target_st == get_param(profile, "target_state_transitions_per_sec")
    IN  IF partitions # <<>> /\ target_st # <<>>
        THEN LET per_50 == target_st[1].value \div 50
                 useful_partitions == IF per_50 > 1 THEN per_50 ELSE 1
             IN  IF partitions[1].value > useful_partitions * 2
                 THEN <<GuardRailResult("matching_partition_oversized", "warning")>>
                 ELSE <<>>
        ELSE <<>>

_check_sticky_warning(profile) ==
    LET sticky_timeout == get_param(profile, "sdk.sticky_schedule_to_start_timeout")
        e2e_latency == get_param(profile, "max_e2e_workflow_latency_ms")
    IN  IF /\ sticky_timeout # <<>>
           /\ e2e_latency # <<>>
           /\ e2e_latency[1].value < 2000
           /\ sticky_timeout[1].value # "0s"
        THEN <<GuardRailResult("sticky_minimal_benefit", "warning")>>
        ELSE <<>>

_check_thundering_herd(profile) ==
    LET jitter == get_param(profile, "dsql.reservoir_lifetime_jitter")
        reservoir_enabled == get_param(profile, "dsql.reservoir_enabled")
    IN  IF enabled(reservoir_enabled) /\ jitter # <<>> /\ jitter[1].value \in {"0s", "0m", "0"}
        THEN <<GuardRailResult("thundering_herd_risk", "error")>>
        ELSE <<>>

_check_reservoir_target_positive(profile) ==
    LET reservoir_enabled == get_param(profile, "dsql.reservoir_enabled")
        reservoir_target == get_param(profile, "dsql.reservoir_target_ready")
    IN  IF enabled(reservoir_enabled) /\ reservoir_target # <<>> /\ reservoir_target[1].value <= 0
        THEN <<GuardRailResult("reservoir_target_zero", "error")>>
        ELSE <<>>

\* The strings str.strip() leaves empty.
Blank == {"", "  "}

_check_distributed_rate_limiter_table(profile) ==
    LET limiter == get_param(profile, "dsql.distributed_rate_limiter_enabled")
        table == get_param(profile, "dsql.distributed_rate_limiter_table")
    IN  IF enabled(limiter) /\ (table = <<>> \/ table[1].value \in Blank)
        THEN <<GuardRailResult("distributed_rate_limiter_table_missing", "error")>>
        ELSE <<>>

\* Mutation: evaluate returns at the first rule that reports.
evaluate_first_only(profile) ==
    LET all == _check_max_idle_equals_max_conns(profile) \o _check_cluster_connection_limit(profile)
               \o _check_matching_partition_warning(profile) \o _check_sticky_warning(profile)
               \o _check_thundering_herd(profile) \o _check_reservoir_target_positive(profile)
               \o _check_distributed_rate_limiter_table(profile)
    IN  IF all = <<>> THEN <<>> ELSE <<Head(all)>>

\* GuardRailEngine.evaluate: the seven checks in order, every result kept.
evaluate(profile) ==
    _check_max_idle_equals_max_conns(profile) \o _check_cluster_connection_limit(profile)
    \o _check_matching_partition_warning(profile) \o _check_sticky_warning(profile)
    \o _check_thundering_herd(profile) \o _check_reservoir_target_positive(profile)
    \o _check_distributed_rate_limiter_table(profile)

\* ---------------------------------------------------------------------------
\* dsql_config : ConfigCompiler.compile
\* ---------------------------------------------------------------------------
NoProfile == [ preset_name |-> "<None>" ]

\* The first override, in key order, that the two validation loops reject.
unknown_keys(overrides) == { key \in DOMAIN overrides : key \notin DOMAIN Registry }
violating_keys(overrides) ==
    { key \in DOMAIN overrides :
        /\ key \in DOMAIN Registry
        /\ Registry[key].constrained
        /\ (overrides[key] < Registry[key].min_value \/ overrides[key] > Registry[key].max_value) }

\* What compile() raises or returns.  `raised` names the exception ("" for a
\* returned CompilationResult) and `errors` lists the CompilationError's
\* messages, one per error result, by rule name.
compile(preset, modifier, overrides) ==
    IF preset \notin DOMAIN PRESETS
    THEN [ raised |-> "UnknownPresetError", profile |-> NoProfile, guard_rail_results |-> <<>>, errors |-> <<>> ]
    ELSE IF modifier # NoModifier /\ modifier \notin DOMAIN MODIFIERS
    THEN [ raised |-> "UnknownModifierError", profile |-> NoProfile, guard_rail_results |-> <<>>, errors |-> <<>> ]
    ELSE IF unknown_keys(overrides) # {}
    THEN [ raised |-> "UnknownParameterError", profile |-> NoProfile, guard_rail_results |-> <<>>, errors |-> <<>> ]
    ELSE IF violating_keys(overrides) # {}
    THEN [ raised |-> "ConstraintViolationError", profile |-> NoProfile, guard_rail_results |-> <<>>, errors |-> <<>> ]
    ELSE LET profile == ConfigProfile(preset, modifier, overrides, _resolve_all(PRESETS[preset], modifier, overrides))
             guard_rail_results == evaluate(profile)
             errors == SelectSeq(guard_rail_results, LAMBDA r : r.severity = "error")
         IN  IF errors # <<>>
             THEN [ raised |-> "CompilationError", profile |-> NoProfile, guard_rail_results |-> <<>>,
                    errors |-> [ i \in DOMAIN errors |-> errors[i].rule_name ] ]
             ELSE [ raised |-> "", profile |-> profile, guard_rail_results |-> guard_rail_results,
                    errors |-> <<>> ]

\* The caller of compile(): picks a preset and a modifier, collects overrides
\* one key at a time (the CLI's repeated --set), and compiles once.
MaxOverrides == 3

\* The override values tried per key: values that pass and values that fail
\* the constraints, values on both sides of what the guard rails compare, and
\* a key the registry does not know.
OverrideValues ==
    [ target_state_transitions_per_sec |-> {0, 100},
      max_e2e_workflow_latency_ms |-> {3000} ] @@
    ( "history.replicas" :> {1, 100} ) @@
    ( "matching.numTaskqueueReadPartitions" :> {64} ) @@
    ( "persistence.maxConns" :> {9, 500} ) @@
    ( "persistence.maxIdleConns" :> {9, 49} ) @@
    ( "dsql.reservoir_enabled" :> {TRUE, FALSE} ) @@
    ( "dsql.reservoir_target_ready" :> {500} ) @@
    ( "dsql.reservoir_lifetime_jitter" :> {"0s", "1m"} ) @@
    ( "dsql.distributed_rate_limiter_enabled" :> {TRUE} ) @@
    ( "dsql.distributed_rate_limiter_table" :> {"", "limiter"} ) @@
    ( "history.persistenceMaxQPS" :> {500} ) @@
    ( "sdk.max_concurrent_activities" :> {1000} ) @@
    ( "sdk.sticky_schedule_to_start_timeout" :> {"0s"} ) @@
    ( "unknown.key" :> {1} )

SetOverride(key, value) ==
    /\ cc_result = None
    /\ key \notin DOMAIN cc_overrides
    /\ Cardinality(DOMAIN cc_overrides) < MaxOverrides
    /\ cc_overrides' = (key :> value) @@ cc_overrides
    /\ UNCHANGED <<cc_preset, cc_modifier, cc_result, compOutside>>

Compile ==
    /\ cc_result = None
    /\ cc_result' = compile(cc_preset, cc_modifier, cc_overrides)
    /\ UNCHANGED <<cc_preset, cc_modifier, cc_overrides, compOutside>>

NextCompile ==
    \/ \E key \in DOMAIN OverrideValues : \E value \in OverrideValues[key] : SetOverride(key, value)
    \/ Compile

\* ---------------------------------------------------------------------------
\* models/config.py, worker.py : the thresholds a deployment configures
\* ---------------------------------------------------------------------------
\* CopilotConfig's critical, stressed and healthy fields with their defaults.
DefaultThresholds ==
    [ critical |-> CriticalThresholds, stressed |-> StressedThresholds, healthy |-> HealthyThresholds ]

\* The threshold sets a CopilotConfig can carry: any field can be set, no
\* validator relates one field to another.  The fields the ordering speaks
\* of take their default or a value on the other side of their neighbour.
ConfiguredThresholds ==
    { [ critical |-> [ CriticalThresholds EXCEPT !.history_backlog_age_max_sec = backlog_max,
                                                 !.state_transitions_min_per_sec = st_min ],
        stressed |-> StressedThresholds,
        healthy  |-> [ HealthyThresholds EXCEPT !.history_backlog_age_healthy_sec = backlog_healthy,
                                                !.workflow_completion_rate_healthy = completion_healthy ] ] :
        backlog_max \in {1200, 200}, st_min \in {100, 600},
        backlog_healthy \in {100, 600}, completion_healthy \in {95, 40} }

\* run_worker up to worker.run(): the client is created, the workflows are
\* started, the worker is built.  No step reads the thresholds.
run_worker ==
    /\ th_pc = "boot"
    /\ th_pc' = "running"
    /\ UNCHANGED <<th_config, evalVars, thOutside>>

\* evaluate_health_state called with the configured thresholds.
EvaluateConfigured ==
    /\ th_pc = "running"
    /\ ev_ret = NoRet
    /\ ev_ret' = evaluate_health_state(ev_primary, ev_state, th_config.critical, th_config.stressed,
                                       th_config.healthy, ev_count)
    /\ UNCHANGED <<ev_primary, ev_state, ev_count, thVars, thOutside>>

NextThresholds == run_worker \/ EvaluateConfigured

\* ---------------------------------------------------------------------------
\* behaviour_profiles/comparison.py, copilot/workflows/drift.py
\* ---------------------------------------------------------------------------
\* Percentages are integers in units of 1/PctUnit percent, so that the value
\* before round(change_pct, 2) and the value after it are both exact.
PctUnit == 10000
Pct(whole) == whole * PctUnit

Abs(x) == IF x < 0 THEN 0 - x ELSE x

\* round(x, 2): the nearest multiple of 0.01, a tie going to the even one.
round2(x) ==
    LET step == PctUnit \div 100
        q == Abs(x) \div step
        r == Abs(x) % step
        up == 2 * r > step \/ (2 * r = step /\ q % 2 = 1)
        magnitude == (IF up THEN q + 1 ELSE q) * step
    IN  IF x < 0 THEN 0 - magnitude ELSE magnitude

\* _pct_change: percentage change from old to new, 0 or 100 if old is 0.
_pct_change(old, new) ==
    IF old = 0 THEN (IF new = 0 THEN 0 ELSE Pct(100))
    ELSE ((new - old) * Pct(100)) \div Abs(old)

\* MetricAggregate, of which the comparison reads the mean only.
MetricAggregate(mean) == [ mean |-> mean ]

\* _flatten_telemetry: the 25 flat metric names and where each is read from;
\* resources.cpu_utilization and memory_utilization are left out.
_flatten_telemetry(profile) ==
    LET t == profile.telemetry
    IN  [ workflows_started_per_sec      |-> t.throughput.workflows_started_per_sec,
          workflows_completed_per_sec    |-> t.throughput.workflows_completed_per_sec,
          state_transitions_per_sec      |-> t.throughput.state_transitions_per_sec,
          workflow_schedule_to_start_p95 |-> t.latency.workflow_schedule_to_start_p95,
          workflow_schedule_to_start_p99 |-> t.latency.workflow_schedule_to_start_p99,
          activity_schedule_to_start_p95 |-> t.latency.activity_schedule_to_start_p95,
          activity_schedule_to_start_p99 |-> t.latency.activity_schedule_to_start_p99,
          persistence_latency_p95        |-> t.latency.persistence_latency_p95,
          persistence_latency_p99        |-> t.latency.persistence_latency_p99,
          sync_match_rate                |-> t.matching.sync_match_rate,
          async_match_rate               |-> t.matching.async_match_rate,
          task_dispatch_latency          |-> t.matching.task_dispatch_latency,
          backlog_count                  |-> t.matching.backlog_count,
          backlog_age                    |-> t.matching.backlog_age,
          pool_open_count                |-> t.dsql_pool.pool_open_count,
          pool_in_use_count              |-> t.dsql_pool.pool_in_use_count,
          pool_idle_count                |-> t.dsql_pool.pool_idle_count,
          reservoir_size                 |-> t.dsql_pool.reservoir_size,
          reservoir_empty_events         |-> t.dsql_pool.reservoir_empty_events,
          open_failures                  |-> t.dsql_pool.open_failures,
          reconnect_count                |-> t.dsql_pool.reconnect_count,
          occ_conflicts_per_sec          |-> t.errors.occ_conflicts_per_sec,
          exhausted_retries_per_sec      |-> t.errors.exhausted_retries_per_sec,
          dsql_auth_failures             |-> t.errors.dsql_auth_failures,
          worker_task_slot_utilization   |-> t.resources.worker_task_slot_utilization ]

\* _flatten_current_telemetry reads the same fields under the same names.
_flatten_current_telemetry(telemetry) == _flatten_telemetry([ telemetry |-> telemetry ])

\* sorted() over the flat metric names.
sorted_metric_names ==
    << "activity_schedule_to_start_p95", "activity_schedule_to_start_p99", "async_match_rate", "backlog_age",
       "backlog_count", "dsql_auth_failures", "exhausted_retries_per_sec", "occ_conflicts_per_sec",
       "open_failures", "persistence_latency_p95", "persistence_latency_p99", "pool_idle_count",
       "pool_in_use_count", "pool_open_count", "reconnect_count", "reservoir_empty_events", "reservoir_size",
       "state_transitions_per_sec", "sync_match_rate", "task_dispatch_latency", "worker_task_slot_utilization",
       "workflow_schedule_to_start_p95", "workflow_schedule_to_start_p99", "workflows_completed_per_sec",
       "workflows_started_per_sec" >>

\* The flat names that contain "error", "conflict", "failure" or "empty".
is_error(name) ==
    name \in {"dsql_auth_failures", "occ_conflicts_per_sec", "open_failures", "reservoir_empty_events"}

\* The flat names that contain "per_sec" and are not error names.
is_throughput(name) ==
    /\ name \in {"exhausted_retries_per_sec", "occ_conflicts_per_sec", "state_transitions_per_sec",
                 "workflows_completed_per_sec", "workflows_started_per_sec"}
    /\ ~is_error(name)

\* Direction of a change: under 5% unchanged; for throughput up is better,
\* for everything else down is better.
direction_of(name, change_pct) ==
    IF Abs(change_pct) < Pct(5) THEN "unchanged"
    ELSE IF is_throughput(name) THEN (IF change_pct > 0 THEN "improved" ELSE "regressed")
    ELSE (IF change_pct < 0 THEN "improved" ELSE "regressed")

\* Severity graded without regard to the direction.
severity_of_any_direction(direction, change_pct, threshold) ==
    IF Abs(change_pct) > Pct(threshold) * 2 THEN "critical"
    ELSE IF Abs(change_pct) > Pct(threshold) THEN "warning"
    ELSE "info"

\* Severity of a change against a threshold given in whole percent.
severity_of(direction, change_pct, threshold) ==
    IF direction = "regressed" /\ Abs(change_pct) > Pct(threshold) * 2 THEN "critical"
    ELSE IF direction = "regressed" /\ Abs(change_pct) > Pct(threshold) THEN "warning"
    ELSE "info"

TelemetryDiff(metric, old_value, new_value, change_pct, direction, severity) ==
    [ metric |-> metric, old_value |-> old_value, new_value |-> new_value, change_pct |-> change_pct,
      direction |-> direction, severity |-> severity ]

\* One pass of the loop of _compare_telemetry: throughput metrics are graded
\* against the latency threshold.
telemetry_diff(name, old, new, latency_threshold_pct, error_threshold_pct) ==
    LET change_pct == _pct_change(old.mean, new.mean)
        direction == direction_of(name, change_pct)
        threshold == IF is_error(name) THEN error_threshold_pct ELSE latency_threshold_pct
    IN  TelemetryDiff(name, old, new, round2(change_pct), direction,
                      severity_of(direction, change_pct, threshold))

_compare_telemetry(a, b, latency_threshold_pct, error_threshold_pct) ==
    LET a_metrics == _flatten_telemetry(a)
        b_metrics == _flatten_telemetry(b)
    IN  [ i \in 1..Len(sorted_metric_names) |->
            telemetry_diff(sorted_metric_names[i], a_metrics[sorted_metric_names[i]],
                           b_metrics[sorted_metric_names[i]], latency_threshold_pct, error_threshold_pct) ]

severity_order == [ critical |-> 0, warning |-> 1, info |-> 2 ]

\* The sort key (severity_order, -abs(change_pct)) of one entry is not above
\* that of another.
sort_key_le(x, y) ==
    \/ severity_order[x.severity] < severity_order[y.severity]
    \/ /\ severity_order[x.severity] = severity_order[y.severity]
       /\ Abs(x.change_pct) >= Abs(y.change_pct)

\* list.sort with that key: stable, entries of equal key keep their order.
RECURSIVE sort_by_severity(_)
sort_by_severity(diffs) ==
    IF diffs = <<>> THEN <<>>
    ELSE LET front == sort_by_severity(SubSeq(diffs, 1, Len(diffs) - 1))
             last == diffs[Len(diffs)]
             k == Cardinality({ i \in 1..Len(front) : sort_key_le(front[i], last) })
         IN  SubSeq(front, 1, k) \o <<last>> \o SubSeq(front, k + 1, Len(front))

ConfigDiff(key, old_value, new_value) ==
    [ key |-> key, old_value |-> old_value, new_value |-> new_value, classification |-> None ]

DynamicConfigEntry(key, value) == [ key |-> key, value |-> value ]
EnvVarEntry(name, value, redacted) == [ name |-> name, value |-> value, redacted |-> redacted ]

\* A dict built from (key, value) pairs in order: of two pairs with one key
\* the later wins.
dict_of(pairs) ==
    [ k \in { pairs[i][1] : i \in DOMAIN pairs } |->
        pairs[CHOOSE i \in DOMAIN pairs :
                  /\ pairs[i][1] = k
                  /\ \A j \in DOMAIN pairs : pairs[j][1] = k => j <= i][2] ]

\* The keys of the model's snapshots, as sorted() orders them.
sorted_config_keys ==
    << "DSQL_CONNECTION_RATE_LIMIT", "DSQL_RESERVOIR_ENABLED", "history.persistenceMaxQPS",
       "matching.numTaskqueueReadPartitions" >>

in_keys(keys) == LET Test(k) == k \in keys IN SelectSeq(sorted_config_keys, Test)

\* One of the two loops of _compare_config: a key is a diff when both
\* profiles have it and the values differ.
config_diffs_of(a_dict, b_dict, prefix) ==
    LET Changed(k) == k \in DOMAIN a_dict /\ k \in DOMAIN b_dict /\ a_dict[k] # b_dict[k]
        changed == SelectSeq(in_keys(DOMAIN a_dict \cup DOMAIN b_dict), Changed)
    IN  [ i \in 1..Len(changed) |-> ConfigDiff(prefix \o changed[i], a_dict[changed[i]], b_dict[changed[i]]) ]

_compare_config(a, b) ==
    LET NotRedacted(e) == ~e.redacted
        by_key(entries) == [ i \in DOMAIN entries |-> <<entries[i].key, entries[i].value>> ]
        by_name(entries) == [ i \in DOMAIN entries |-> <<entries[i].name, entries[i].value>> ]
        a_dc == dict_of(by_key(a.config_snapshot.dynamic_config))
        b_dc == dict_of(by_key(b.config_snapshot.dynamic_config))
        a_env == dict_of(by_name(SelectSeq(a.config_snapshot.server_env_vars, NotRedacted)))
        b_env == dict_of(by_name(SelectSeq(b.config_snapshot.server_env_vars, NotRedacted)))
    IN  config_diffs_of(a_dc, b_dc, "dynamic_config.") \o config_diffs_of(a_env, b_env, "env.")

\* old_version and new_version hold at most one version; for the worker
\* code SHA both are None.
VersionDiff(component, old_version, new_version) ==
    [ component |-> component, old_version |-> old_version, new_version |-> new_version ]

_compare_versions(a, b) ==
    (IF a.temporal_server_version # b.temporal_server_version
       THEN << VersionDiff("temporal_server", <<a.temporal_server_version>>, <<b.temporal_server_version>>) >>
       ELSE <<>>)
    \o (IF a.dsql_plugin_version # b.dsql_plugin_version
          THEN << VersionDiff("dsql_plugin", <<a.dsql_plugin_version>>, <<b.dsql_plugin_version>>) >>
          ELSE <<>>)
    \o (IF a.worker_code_sha # b.worker_code_sha
          THEN << VersionDiff("worker_code_sha", <<>>, <<>>) >>
          ELSE <<>>)

ProfileComparison(profile_a_id, profile_b_id, config_diffs, telemetry_diffs, version_diffs) ==
    [ kind |-> "ProfileComparison", profile_a_id |-> profile_a_id, profile_b_id |-> profile_b_id,
      config_diffs |-> config_diffs, telemetry_diffs |-> telemetry_diffs, version_diffs |-> version_diffs ]

\* A call with no keyword argument.
NoKwargs == [ k \in {} |-> 0 ]

\* The keyword-only parameters of compare_profiles.
compare_profiles_keywords == {"latency_threshold_pct", "error_threshold_pct"}

keyword(kwargs, name, default) == IF name \in DOMAIN kwargs THEN kwargs[name] ELSE default

\* compare_profiles(a, b, **kwargs): a keyword that is not a parameter is a
\* TypeError of the call; the defaults are latency 20 and error 50.  The
\* first statement, _compare_config(a, b), reads a.config_snapshot.dynamic_config
\* and b.config_snapshot.dynamic_config: on a profile whose config_snapshot is
\* None that is an AttributeError, which no handler catches.
compare_profiles(a, b, kwargs) ==
    IF ~(DOMAIN kwargs \subseteq compare_profiles_keywords) THEN [ kind |-> "TypeError" ]
    ELSE IF a.config_snapshot = None \/ b.config_snapshot = None THEN [ kind |-> "AttributeError" ]
    ELSE LET latency_threshold_pct == keyword(kwargs, "latency_threshold_pct", 20)
             error_threshold_pct == keyword(kwargs, "error_threshold_pct", 50)
         IN  ProfileComparison(a.id, b.id, _compare_config(a, b),
                               sort_by_severity(_compare_telemetry(a, b, latency_threshold_pct,
                                                                   error_threshold_pct)),
                               _compare_versions(a, b))

DriftThresholds(latency_pct, error_pct, throughput_pct) ==
    [ latency_pct |-> latency_pct, error_pct |-> error_pct, throughput_pct |-> throughput_pct ]

DriftResult(metric, baseline_value, current_value, change_pct, direction, severity) ==
    [ metric |-> metric, baseline_value |-> baseline_value, current_value |-> current_value,
      change_pct |-> change_pct, direction |-> direction, severity |-> severity ]

\* One pass of the loop of detect_drift, and whether the metric is included.
drift_threshold(name, thresholds) ==
    IF is_error(name) THEN thresholds.error_pct
    ELSE IF is_throughput(name) THEN thresholds.throughput_pct
    ELSE thresholds.latency_pct

drift_result(name, baseline_agg, current_agg, thresholds) ==
    LET change_pct == _pct_change(baseline_agg.mean, current_agg.mean)
        direction == direction_of(name, change_pct)
    IN  DriftResult(name, baseline_agg.mean, current_agg.mean, round2(change_pct), direction,
                    severity_of(direction, change_pct, drift_threshold(name, thresholds)))

\* detect_drift: the summary is kept as the choice between its two texts.
detect_drift(current_telemetry, baseline, thresholds_arg) ==
    LET thresholds == IF thresholds_arg = None THEN DriftThresholds(20, 50, 30) ELSE thresholds_arg
        baseline_metrics == _flatten_telemetry(baseline)
        current_metrics == _flatten_current_telemetry(current_telemetry)
        Exceeds(name) == Abs(_pct_change(baseline_metrics[name].mean, current_metrics[name].mean))
                            > Pct(drift_threshold(name, thresholds))
        included == SelectSeq(sorted_metric_names, Exceeds)
        drifted == sort_by_severity([ i \in 1..Len(included) |->
                        drift_result(included[i], baseline_metrics[included[i]],
                                     current_metrics[included[i]], thresholds) ])
        is_drifted == \E i \in 1..Len(drifted) : drifted[i].severity \in {"warning", "critical"}
    IN  [ kind |-> "DriftAssessment", baseline_profile_id |-> baseline.id,
          baseline_profile_name |-> baseline.name, drifted_metrics |-> drifted, is_drifted |-> is_drifted,
          summary |-> IF is_drifted THEN "Drift detected" ELSE "No significant drift detected" ]

CONFIG_TELEMETRY_CORRELATIONS ==
    ("persistence.maxConns" :> << "pool_open_count", "pool_in_use_count", "pool_idle_count",
                                  "persistence_latency_p95", "persistence_latency_p99" >>)
    @@ ("persistence.maxIdleConns" :> << "pool_idle_count", "pool_open_count", "persistence_latency_p95" >>)
    @@ ("persistence.maxConnLifetime" :> << "pool_open_count", "reconnect_count" >>)
    @@ ("env.DSQL_RESERVOIR_ENABLED" :> << "reservoir_size", "reservoir_empty_events", "open_failures" >>)
    @@ ("env.DSQL_RESERVOIR_TARGET_READY" :> << "reservoir_size", "reservoir_empty_events" >>)
    @@ ("env.DSQL_CONNECTION_RATE_LIMIT" :> << "open_failures", "persistence_latency_p95",
                                              "state_transitions_per_sec" >>)
    @@ ("env.DSQL_DISTRIBUTED_RATE_LIMITER_ENABLED" :> << "open_failures", "reconnect_count" >>)
    @@ ("dynamic_config.matching.numTaskqueueReadPartitions" :>
            << "sync_match_rate", "async_match_rate", "task_dispatch_latency", "backlog_count", "backlog_age" >>)
    @@ ("dynamic_config.matching.numTaskqueueWritePartitions" :>
            << "sync_match_rate", "async_match_rate", "task_dispatch_latency" >>)
    @@ ("dynamic_config.history.persistenceMaxQPS" :>
            << "state_transitions_per_sec", "persistence_latency_p95", "persistence_latency_p99" >>)
    @@ ("dynamic_config.history.transferActiveTaskQueueTimeout" :> << "state_transitions_per_sec", "backlog_age" >>)

\* The explanation is a text made of the other four fields.
DriftCorrelation(config_key, config_old_value, config_new_value, correlated_metrics) ==
    [ config_key |-> config_key, config_old_value |-> config_old_value,
      config_new_value |-> config_new_value, correlated_metrics |-> correlated_metrics ]

CorrelationAssessment(correlations, has_correlations, summary) ==
    [ kind |-> "CorrelationAssessment", correlations |-> correlations,
      has_correlations |-> has_correlations, summary |-> summary ]

\* The metrics of the comparison that regressed with severity warning or critical.
regressed_metrics(comparison) ==
    { comparison.telemetry_diffs[i].metric : i \in
        { j \in DOMAIN comparison.telemetry_diffs :
            /\ comparison.telemetry_diffs[j].direction = "regressed"
            /\ comparison.telemetry_diffs[j].severity \in {"warning", "critical"} } }

\* Only the first correlated metric of the key is looked for.
matched_metrics_first_only(key, regressed) ==
    LET known_correlated == IF key \in DOMAIN CONFIG_TELEMETRY_CORRELATIONS
                            THEN SubSeq(CONFIG_TELEMETRY_CORRELATIONS[key], 1, 1) ELSE <<>>
        Regressed(m) == m \in regressed
    IN  SelectSeq(known_correlated, Regressed)

\* CONFIG_TELEMETRY_CORRELATIONS.get(key, []) filtered by the regressed metrics.
matched_metrics(key, regressed) ==
    LET known_correlated == IF key \in DOMAIN CONFIG_TELEMETRY_CORRELATIONS
                            THEN CONFIG_TELEMETRY_CORRELATIONS[key] ELSE <<>>
        Regressed(m) == m \in regressed
    IN  SelectSeq(known_correlated, Regressed)

\* correlate_drift: the summary is kept as the choice between its three texts.
correlate_drift(comparison) ==
    LET regressed == regressed_metrics(comparison)
        Matched(config_diff) == matched_metrics(config_diff.key, regressed) # <<>>
        with_match == SelectSeq(comparison.config_diffs, Matched)
        correlations == [ i \in 1..Len(with_match) |->
                            DriftCorrelation(with_match[i].key, with_match[i].old_value,
                                             with_match[i].new_value,
                                             matched_metrics(with_match[i].key, regressed)) ]
    IN  IF regressed = {} \/ comparison.config_diffs = <<>>
        THEN CorrelationAssessment(<<>>, FALSE, "No correlations found")
        ELSE CorrelationAssessment(correlations, correlations # <<>>,
                                   IF correlations # <<>> THEN "config change(s) correlated"
                                   ELSE "Config changes detected but no known correlations")

\* TelemetrySummary with four of its means given and every other mean 1600.
TelemetrySummary(state_transitions, persistence_p95, open_failures, auth_failures) ==
    LET same == MetricAggregate(1600)
    IN  [ throughput |-> [ workflows_started_per_sec |-> same, workflows_completed_per_sec |-> same,
                           state_transitions_per_sec |-> MetricAggregate(state_transitions) ],
          latency    |-> [ workflow_schedule_to_start_p95 |-> same, workflow_schedule_to_start_p99 |-> same,
                           activity_schedule_to_start_p95 |-> same, activity_schedule_to_start_p99 |-> same,
                           persistence_latency_p95 |-> MetricAggregate(persistence_p95),
                           persistence_latency_p99 |-> same ],
          matching   |-> [ sync_match_rate |-> same, async_match_rate |-> same, task_dispatch_latency |-> same,
                           backlog_count |-> same, backlog_age |-> same ],
          dsql_pool  |-> [ pool_open_count |-> same, pool_in_use_count |-> same, pool_idle_count |-> same,
                           reservoir_size |-> same, reservoir_empty_events |-> same,
                           open_failures |-> MetricAggregate(open_failures), reconnect_count |-> same ],
          errors     |-> [ occ_conflicts_per_sec |-> same, exhausted_retries_per_sec |-> same,
                           dsql_auth_failures |-> MetricAggregate(auth_failures) ],
          resources  |-> [ cpu_utilization |-> same, memory_utilization |-> same,
                           worker_task_slot_utilization |-> same ] ]

\* BehaviourProfile with the fields the comparison and the drift detection
\* read; the profile carries a config snapshot.
BehaviourProfile(id, temporal_server_version, dynamic_config, server_env_vars, telemetry) ==
    [ id |-> id, name |-> id, temporal_server_version |-> temporal_server_version,
      dsql_plugin_version |-> "0.4.0", worker_code_sha |-> "abc123",
      config_snapshot |-> [ dynamic_config |-> dynamic_config, server_env_vars |-> server_env_vars ],
      telemetry |-> telemetry ]

ProfileA ==
    BehaviourProfile("profile-a", "1.29.0",
                     << DynamicConfigEntry("history.persistenceMaxQPS", 1000),
                        DynamicConfigEntry("matching.numTaskqueueReadPartitions", 4) >>,
                     << EnvVarEntry("DSQL_CONNECTION_RATE_LIMIT", "100", FALSE) >>,
                     TelemetrySummary(1600, 1600, 1600, 0))

\* The second profiles: the means of one throughput, one latency and two
\* error metrics moved by -50%, -25%, 0, +3%, +20.0625%, +25%, +45% or +120%,
\* persistenceMaxQPS kept, halved or absent, the connection rate limit kept,
\* halved or redacted, the server version kept or raised.
ProfilesB ==
    { BehaviourProfile("profile-b", version,
                       qps \o << DynamicConfigEntry("matching.numTaskqueueReadPartitions", 4) >>,
                       << rate_limit >>,
                       TelemetrySummary(state_transitions, persistence_p95, open_failures, auth_failures)) :
        version \in {"1.29.0", "1.30.0"},
        qps \in { << DynamicConfigEntry("history.persistenceMaxQPS", 1000) >>,
                  << DynamicConfigEntry("history.persistenceMaxQPS", 500) >>, <<>> },
        rate_limit \in { EnvVarEntry("DSQL_CONNECTION_RATE_LIMIT", "100", FALSE),
                         EnvVarEntry("DSQL_CONNECTION_RATE_LIMIT", "50", FALSE),
                         EnvVarEntry("DSQL_CONNECTION_RATE_LIMIT", "50", TRUE) },
        state_transitions \in {800, 1200, 1600},
        persistence_p95 \in {800, 1648, 1921, 2000, 2320},
        open_failures \in {1600, 2320, 3520},
        auth_failures \in {0, 1} }

\* create_profile builds the profile with config_snapshot=None.
create_profile(profile) == [ profile EXCEPT !.config_snapshot = None ]

\* Profiles as create_profile stores them: the server version kept or raised,
\* the state transitions kept or halved.
CreatedProfiles ==
    { create_profile(BehaviourProfile("profile-b", version, <<>>, <<>>,
                                      TelemetrySummary(state_transitions, 1600, 1600, 0))) :
        version \in {"1.29.0", "1.30.0"}, state_transitions \in {800, 1600} }

\* The pairs compared: two profiles with a snapshot, one with and one
\* without, and two without.
ProfilePairs ==
    ({ProfileA} \X ProfilesB) \cup ({ProfileA, create_profile(ProfileA)} \X CreatedProfiles)

\* The keyword arguments of the calls: none, one threshold, both thresholds,
\* and a threshold for throughput.
CompareKwargs ==
    { NoKwargs,
      [ latency_threshold_pct |-> 10 ],
      [ latency_threshold_pct |-> 30, error_threshold_pct |-> 100 ],
      [ throughput_threshold_pct |-> 30 ] }

DriftThresholdArgs == { None, DriftThresholds(10, 100, 40) }

\* compare_profiles(a, b, **kwargs) is called.
CompareProfiles ==
    /\ cmp_comparison = None
    /\ cmp_comparison' = compare_profiles(cmp_a, cmp_b, cmp_kwargs)
    /\ UNCHANGED <<cmp_a, cmp_b, cmp_kwargs, cmp_correlation, drift_thresholds, drift_assessment, cmpOutside>>

\* correlate_drift is called with the comparison that was returned.
CorrelateDrift ==
    /\ cmp_comparison.kind = "ProfileComparison"
    /\ cmp_correlation = None
    /\ cmp_correlation' = correlate_drift(cmp_comparison)
    /\ UNCHANGED <<cmp_a, cmp_b, cmp_kwargs, cmp_comparison, drift_thresholds, drift_assessment, cmpOutside>>

\* detect_drift is called with the second profile's telemetry as the
\* current telemetry and the first profile as the baseline.
DetectDrift ==
    /\ drift_assessment = None
    /\ drift_assessment' = detect_drift(cmp_b.telemetry, cmp_a, drift_thresholds)
    /\ UNCHANGED <<cmp_a, cmp_b, cmp_kwargs, cmp_comparison, cmp_correlation, drift_thresholds, cmpOutside>>

NextCompare == CompareProfiles \/ CorrelateDrift \/ DetectDrift

\* ---------------------------------------------------------------------------
\* models/state_machine.py : worker scaling rules
\* ---------------------------------------------------------------------------
\* WorkerSignals with the fields the scaling rules read; every count is >= 0.
WorkerSignals(wf_available, wf_used, act_available, act_used, wf_pollers, act_pollers) ==
    [ workflow_slots_available |-> wf_available, workflow_slots_used |-> wf_used,
      activity_slots_available |-> act_available, activity_slots_used |-> act_used,
      workflow_pollers |-> wf_pollers, activity_pollers |-> act_pollers ]

\* WorkerScalingContext; sticky_cache_hit_rate is in hundredths.
WorkerScalingContext(has_long_running_workflows, sticky_cache_hit_rate, worker_count, proposed_scale_up_count) ==
    [ has_long_running_workflows |-> has_long_running_workflows,
      sticky_cache_hit_rate |-> sticky_cache_hit_rate, worker_count |-> worker_count,
      proposed_scale_up_count |-> proposed_scale_up_count ]

\* WorkerScalingWarning; the message is kept up to its first sentence.
WorkerScalingWarning(rule, message, severity) == [ rule |-> rule, message |-> message, severity |-> severity ]

\* proposed_action = None.
NoAction == "<None>"

\* Rule 1 looking at the workflow slots only.
never_scale_down_at_zero_workflow_slots_only(worker, proposed_action) ==
    IF worker.workflow_slots_available = 0
    THEN << WorkerScalingWarning("NEVER_SCALE_DOWN_AT_ZERO", "Worker task slots exhausted.", "critical") >>
         \o (IF proposed_action = "scale_down"
             THEN << WorkerScalingWarning("NEVER_SCALE_DOWN_AT_ZERO", "BLOCKED", "critical") >>
             ELSE <<>>)
    ELSE <<>>

\* Rule 1: NEVER_SCALE_DOWN_AT_ZERO.
never_scale_down_at_zero(worker, proposed_action) ==
    IF worker.workflow_slots_available = 0 \/ worker.activity_slots_available = 0
    THEN << WorkerScalingWarning("NEVER_SCALE_DOWN_AT_ZERO", "Worker task slots exhausted.", "critical") >>
         \o (IF proposed_action = "scale_down"
             THEN << WorkerScalingWarning("NEVER_SCALE_DOWN_AT_ZERO", "BLOCKED", "critical") >>
             ELSE <<>>)
    ELSE <<>>

\* Rule 2: STICKY_QUEUE_WARNING.
sticky_queue_warning(proposed_action, context) ==
    IF context # None /\ context.has_long_running_workflows /\ proposed_action = "scale_up"
    THEN << WorkerScalingWarning("STICKY_QUEUE_WARNING", "Long-running workflows detected.", "warning") >>
    ELSE <<>>

\* Rule 3: RESTART_TO_REDISTRIBUTE, for a low hit rate and for a large scale-up.
restart_to_redistribute(context) ==
    IF context = None THEN <<>>
    ELSE (IF context.sticky_cache_hit_rate < 50 /\ context.worker_count > 1
          THEN << WorkerScalingWarning("RESTART_TO_REDISTRIBUTE", "Sticky cache hit rate is low", "warning") >>
          ELSE <<>>)
         \o (IF /\ context.has_long_running_workflows
                /\ context.proposed_scale_up_count > 0
                /\ context.proposed_scale_up_count >= context.worker_count
             THEN << WorkerScalingWarning("RESTART_TO_REDISTRIBUTE", "Scaling up by n workers", "warning") >>
             ELSE <<>>)

\* Rule 4: POLLER_EXECUTOR_MISMATCH.
poller_executor_mismatch(worker) ==
    LET total_slots == worker.workflow_slots_available + worker.workflow_slots_used
                       + worker.activity_slots_available + worker.activity_slots_used
        total_pollers == worker.workflow_pollers + worker.activity_pollers
    IN  IF total_pollers > total_slots /\ total_slots > 0
        THEN << WorkerScalingWarning("POLLER_EXECUTOR_MISMATCH", "Pollers exceed executor slots", "warning") >>
        ELSE <<>>

evaluate_worker_scaling_rules(worker, proposed_action, context) ==
    never_scale_down_at_zero(worker, proposed_action)
    \o sticky_queue_warning(proposed_action, context)
    \o restart_to_redistribute(context)
    \o poller_executor_mismatch(worker)

IdleWorker == WorkerSignals(1, 0, 1, 0, 1, 1)
NotEvaluated == [ called |-> FALSE, warnings |-> <<>> ]

WorkerInputs ==
    { WorkerSignals(wf_available, wf_used, act_available, act_used, wf_pollers, act_pollers) :
        wf_available \in 0..2, wf_used \in {0, 1}, act_available \in 0..2, act_used \in {0, 1},
        wf_pollers \in {0, 2, 5}, act_pollers \in {0, 2} }

ProposedActions == {NoAction, "scale_down", "scale_up"}

ScalingContexts ==
    {None} \cup { WorkerScalingContext(long_running, hit_rate, worker_count, scale_up_count) :
                    long_running \in BOOLEAN, hit_rate \in {30, 100}, worker_count \in {1, 2},
                    scale_up_count \in {0, 2} }

\* evaluate_worker_scaling_rules is called.
EvaluateWorkerScaling ==
    /\ ~ws_warnings.called
    /\ ws_warnings' = [ called |-> TRUE,
                        warnings |-> evaluate_worker_scaling_rules(ws_worker, ws_action, ws_context) ]
    /\ UNCHANGED <<ws_worker, ws_action, ws_context, scalingOutside>>

NextScaling == EvaluateWorkerScaling

\* ---------------------------------------------------------------------------
\* Initial states
\* ---------------------------------------------------------------------------
\* No process has called start_workflows, and the server runs nothing.
StartIdle == executions = {} /\ starters = <<>>
\* ScheduledAssessmentWorkflow is not running.
SchedIdle == sched_pc = "absent" /\ sched_signals = None /\ sched_timer = 0
\* No profile is stored and set_baseline was not called.
ProfilesIdle == behaviour_profiles = <<>> /\ baseline_calls = <<>> /\ s3_objects = <<>>
\* No GET /status request was answered.
ApiIdle == status_response = None /\ status_calls = 0
\* compile() was not called.
CompilerIdle == cc_preset = "starter" /\ cc_modifier = NoModifier /\ cc_overrides = <<>> /\ cc_result = None
\* The worker runs with the default thresholds and has not booted.
ThresholdsIdle == th_config = DefaultThresholds /\ th_pc = "boot"
\* No query has been sent to the observer.
QueryIdle == query_reply = NoReply
\* No profile comparison is being made.
CompareIdle ==
    /\ cmp_a = ProfileA
    /\ cmp_b = ProfileA
    /\ cmp_kwargs = NoKwargs
    /\ cmp_comparison = None
    /\ cmp_correlation = None
    /\ drift_thresholds = None
    /\ drift_assessment = None
\* No worker scaling decision is being evaluated.
ScalingIdle == ws_worker = IdleWorker /\ ws_action = NoAction /\ ws_context = None /\ ws_warnings = NotEvaluated
OthersIdle == StartIdle /\ SchedIdle /\ ProfilesIdle /\ ApiIdle /\ CompilerIdle /\ ThresholdsIdle /\ QueryIdle /\ CompareIdle /\ ScalingIdle

\* ObserveClusterWorkflow.__init__, before run() starts.
ObserverConstructed ==
    /\ obs_pc = "reconcile"
    /\ _current_state = HAPPY
    /\ _reconciled = FALSE
    /\ _signal_window = <<>>
    /\ _consecutive_critical_count = 0
    /\ signals = None
    /\ new_state = Unassigned
    /\ assessment = None
    /\ obs_log = NoError

\* No call of the state machine is being driven.
EvalIdle ==
    /\ ev_primary = idle_signals
    /\ ev_state = HAPPY
    /\ ev_count = 0
    /\ ev_ret = NoRet

\* The assessments a previous run of the workflows left in the table: none,
\* one, or two that name different states, written before this run started
\* (timestamps -2 and -1) in either order or at the same time.
StoredBefore ==
    LET row(t, h) == HealthAssessment(t, "state_change", h, idle_signals, 0, "minimal")
    IN  {<<>>} \cup { insert_health_assessment(<<>>, row(0 - 1, h)) : h \in HealthState }
               \cup { insert_health_assessment(insert_health_assessment(<<>>, row(ts[1], hs[1])), row(ts[2], hs[2])) :
                        ts \in {<<0 - 2, 0 - 1>>, <<0 - 1, 0 - 2>>, <<0 - 1, 0 - 1>>},
                        hs \in { p \in HealthState \X HealthState : p[1] # p[2] } }

InitObserve ==
    /\ EvalIdle
    /\ OthersIdle
    /\ now = 0
    /\ health_assessments \in StoredBefore
    /\ metrics_snapshots = <<>>
    /\ ObserverConstructed
    /\ children = <<>>

\* The child workflows are started and never awaited, and nothing they write
\* is read by the observer after reconciliation: their runs are SpecAssess.
NextObserve == ObserveStep

SpecObserve == InitObserve /\ [][NextObserve]_vars

\* The observer on an empty table, queried by clients at any moment.
InitQueries ==
    /\ EvalIdle
    /\ OthersIdle
    /\ now = 0
    /\ health_assessments = <<>>
    /\ metrics_snapshots = <<>>
    /\ ObserverConstructed
    /\ children = <<>>

NextQueries == ObserveStep \/ \E name \in QueryNames : Query(name)

SpecQueries == InitQueries /\ [][NextQueries]_vars

\* The runtime fires the 30 s timer of workflow.sleep.
SpecObserveLive == SpecObserve /\ WF_vars(Sleep)

\* One run of AssessHealthWorkflow on an arbitrary input, the observer absent.
InitAssess ==
    /\ EvalIdle
    /\ OthersIdle
    /\ now = 0
    /\ health_assessments = <<>>
    /\ metrics_snapshots = <<>>
    /\ ObserverConstructed
    /\ children \in { <<NewRun(AssessHealthInput(h, Signals(primary, 0), trigger))>> :
                         h \in HealthState, primary \in ObservedSignals,
                         trigger \in {"state_change", "scheduled"} }

NextAssess == \E c \in DOMAIN children : AssessStep(c)

SpecAssess == InitAssess /\ [][NextAssess]_vars

\* ScheduledAssessmentWorkflow from its start, the assessment runs it and the
\* observer start, and the clock.
InitScheduled ==
    /\ EvalIdle
    /\ StartIdle
    /\ ProfilesIdle
    /\ ApiIdle
    /\ CompilerIdle
    /\ ThresholdsIdle
    /\ QueryIdle
    /\ CompareIdle
    /\ ScalingIdle
    /\ sched_pc = "check" /\ sched_signals = None /\ sched_timer = 0
    /\ now = 0
    /\ health_assessments = <<>>
    /\ metrics_snapshots = <<>>
    /\ ObserverConstructed
    /\ children = <<>>

SpecScheduled == InitScheduled /\ [][NextScheduled]_vars

\* The profile storage from an empty table.
InitProfiles ==
    /\ EvalIdle
    /\ OthersIdle
    /\ now = 0
    /\ health_assessments = <<>>
    /\ metrics_snapshots = <<>>
    /\ ObserverConstructed
    /\ children = <<>>

SpecProfiles == InitProfiles /\ [][NextProfiles]_vars

\* The API beside the writers of its tables, from empty tables.
InitApi ==
    /\ EvalIdle
    /\ OthersIdle
    /\ now = 0
    /\ health_assessments = <<>>
    /\ metrics_snapshots = <<>>
    /\ ObserverConstructed
    /\ children = <<>>

SpecApi == InitApi /\ [][NextApi]_vars

\* A caller of ConfigCompiler.compile with any preset and modifier.
InitCompile ==
    /\ EvalIdle
    /\ StartIdle
    /\ SchedIdle
    /\ ProfilesIdle
    /\ ApiIdle
    /\ ThresholdsIdle
    /\ QueryIdle
    /\ CompareIdle
    /\ ScalingIdle
    /\ cc_preset \in DOMAIN PRESETS
    /\ cc_modifier \in {NoModifier} \cup DOMAIN MODIFIERS
    /\ cc_overrides = <<>>
    /\ cc_result = None
    /\ now = 0
    /\ health_assessments = <<>>
    /\ metrics_snapshots = <<>>
    /\ ObserverConstructed
    /\ children = <<>>

SpecCompile == InitCompile /\ [][NextCompile]_vars

\* A worker process with any configured thresholds, before it boots, and the
\* first observation the state machine will be given.
InitThresholds ==
    /\ ev_primary \in BaseSignals
    /\ ev_state \in HealthState
    /\ ev_count \in 0..CONSECUTIVE_CRITICAL_THRESHOLD
    /\ ev_ret = NoRet
    /\ StartIdle
    /\ SchedIdle
    /\ ProfilesIdle
    /\ ApiIdle
    /\ CompilerIdle
    /\ QueryIdle
    /\ CompareIdle
    /\ ScalingIdle
    /\ th_config \in ConfiguredThresholds
    /\ th_pc = "boot"
    /\ now = 0
    /\ health_assessments = <<>>
    /\ metrics_snapshots = <<>>
    /\ ObserverConstructed
    /\ children = <<>>

SpecThresholds == InitThresholds /\ [][NextThresholds]_vars

\* Two profiles, the arguments of the calls, and no call made yet.
InitCompareProfiles ==
    /\ EvalIdle
    /\ StartIdle
    /\ SchedIdle
    /\ ProfilesIdle
    /\ ApiIdle
    /\ CompilerIdle
    /\ ThresholdsIdle
    /\ QueryIdle
    /\ ScalingIdle
    /\ \E pair \in ProfilePairs : cmp_a = pair[1] /\ cmp_b = pair[2]
    /\ cmp_kwargs \in CompareKwargs
    /\ cmp_comparison = None
    /\ cmp_correlation = None
    /\ drift_thresholds \in DriftThresholdArgs
    /\ drift_assessment = None
    /\ now = 0
    /\ health_assessments = <<>>
    /\ metrics_snapshots = <<>>
    /\ ObserverConstructed
    /\ children = <<>>

SpecCompareProfiles == InitCompareProfiles /\ [][NextCompare]_vars

\* Any worker signals, proposed action and context, before the call.
InitScaling ==
    /\ EvalIdle
    /\ StartIdle
    /\ SchedIdle
    /\ ProfilesIdle
    /\ ApiIdle
    /\ CompilerIdle
    /\ ThresholdsIdle
    /\ QueryIdle
    /\ CompareIdle
    /\ ws_worker \in WorkerInputs
    /\ ws_action \in ProposedActions
    /\ ws_context \in ScalingContexts
    /\ ws_warnings = NotEvaluated
    /\ now = 0
    /\ health_assessments = <<>>
    /\ metrics_snapshots = <<>>
    /\ ObserverConstructed
    /\ children = <<>>

SpecScaling == InitScaling /\ [][NextScaling]_vars

\* Starters and worker boots against one Temporal server; the workflows they
\* start are long-running and do not close.
InitStart ==
    /\ EvalIdle
    /\ OthersIdle
    /\ now = 0
    /\ health_assessments = <<>>
    /\ metrics_snapshots = <<>>
    /\ ObserverConstructed
    /\ children = <<>>

SpecStart == InitStart /\ [][NextStart]_vars

\* ---------------------------------------------------------------------------
\* The caller of the state machine: calls it with the default thresholds and
\* feeds the returned state and count into the next call, with the next
\* observation (the same signal, or one that moved in one field).
\* ---------------------------------------------------------------------------
InitEval ==
    /\ ev_primary \in SignalInputs
    /\ ev_state \in HealthState
    /\ ev_count \in 0..MaxCount
    /\ ev_ret = NoRet
    /\ OthersIdle
    /\ now = 0
    /\ health_assessments = <<>>
    /\ metrics_snapshots = <<>>
    /\ ObserverConstructed
    /\ children = <<>>

Evaluate ==
    /\ ev_ret = NoRet
    /\ ev_ret' = evaluate_health_state(ev_primary, ev_state, CriticalThresholds, StressedThresholds, HealthyThresholds, ev_count)
    /\ UNCHANGED <<ev_primary, ev_state, ev_count>>
    /\ UNCHANGED <<now, storeVars, obsVars, children, otherVars>>

FeedBack ==
    /\ ev_ret # NoRet
    /\ ev_ret[2] <= MaxCount
    /\ \E g \in DOMAIN FieldValues : \E f \in DOMAIN FieldValues[g] : \E v \in FieldValues[g][f] \cup {ev_primary[g][f]} :
          /\ [ev_primary EXCEPT ![g][f] = v] \in SignalInputs
          /\ ev_primary' = [ev_primary EXCEPT ![g][f] = v]
    /\ ev_state' = ev_ret[1]
    /\ ev_count' = ev_ret[2]
    /\ ev_ret' = NoRet
    /\ UNCHANGED <<now, storeVars, obsVars, children, otherVars>>

NextEval == Evaluate \/ FeedBack

SpecEval == InitEval /\ [][NextEval]_vars

\* ===========================================================================
\* Properties of the state machine (checked under SpecEval)
\* ===========================================================================
Returned == ev_ret # NoRet

\* The idle conditions as the specification words them: throughput and
\* processing rate below 1/s, the three error rates below 0.1/s, the three
\* backlog ages below 1 s.
IdleConditions(s) ==
    /\ s.state_transitions.throughput_per_sec < 10
    /\ s.history.task_processing_rate_per_sec < 10
    /\ s.frontend.error_rate_per_sec < 1
    /\ s.persistence.error_rate_per_sec < 1
    /\ s.workflow_completion.failed_per_sec < 1
    /\ s.history.backlog_age_sec < 10
    /\ s.matching.workflow_backlog_age_sec < 10
    /\ s.matching.activity_backlog_age_sec < 10

\* The critical gates as the specification words them, on the default thresholds.
CriticalGateTripped(s) ==
    \/ s.state_transitions.throughput_per_sec < 100
    \/ /\ s.workflow_completion.success_per_sec + s.workflow_completion.failed_per_sec
             >= completion_rate_demand_floor_per_sec
       /\ s.workflow_completion.completion_rate < 50
    \/ s.history.backlog_age_sec > 1200
    \/ s.history.task_processing_rate_per_sec < 100
    \/ s.persistence.error_rate_per_sec > 100

\* C1: from Happy, evaluate_health_state never returns Critical, whatever the
\* signal and the incoming counter: the new state is Happy or Stressed.
C1_NoDirectHappyToCritical ==
    (Returned /\ ev_state = HAPPY) => ev_ret[1] \in {HAPPY, STRESSED}

\* C1 witness: a sustained critical observation arrives in Happy and is
\* answered with Stressed.
C1_Witness ==
    /\ Returned /\ ev_state = HAPPY
    /\ ~IdleConditions(ev_primary) /\ CriticalGateTripped(ev_primary)
    /\ ev_count + 1 >= CONSECUTIVE_CRITICAL_THRESHOLD
    /\ ev_ret[1] = STRESSED

\* C2: debounce.  With a non-idle signal that trips a critical gate, a call
\* from (Stressed, k) with k = 0, 1 returns (Stressed, k + 1) and the call from
\* (Stressed, 2) returns (Critical, 3); fed back from (Stressed, 0) these are
\* the first, second and third call of the run.
C2_Debounce ==
    (/\ Returned /\ ev_state = STRESSED /\ ev_count \in 0..2
     /\ ~IdleConditions(ev_primary) /\ CriticalGateTripped(ev_primary))
    => ev_ret = << IF ev_count = 2 THEN CRITICAL ELSE STRESSED, ev_count + 1 >>

\* C2 witness: the third call of the run returns (Critical, 3).
C2_Witness ==
    /\ Returned /\ ev_state = STRESSED /\ ev_count = 2
    /\ ~IdleConditions(ev_primary) /\ CriticalGateTripped(ev_primary)
    /\ ev_ret = <<CRITICAL, CONSECUTIVE_CRITICAL_THRESHOLD>>

\* C3: counter reset.  A call whose signal trips no critical gate returns
\* count 0 whatever the incoming state and count; and Critical is only ever
\* returned with a count of at least three that is one more than the incoming
\* count, so after a reset three consecutive critical calls are needed again.
C3_CounterReset ==
    Returned =>
      /\ ~CriticalGateTripped(ev_primary) => ev_ret[2] = 0
      /\ ev_ret[1] = CRITICAL =>
            /\ ev_ret[2] >= CONSECUTIVE_CRITICAL_THRESHOLD
            /\ ev_ret[2] = ev_count + 1

\* C3 witness: a run of two critical observations is cut by a non-critical,
\* non-idle one and the count drops to 0.
C3_Witness ==
    /\ Returned /\ ev_count = 2 /\ ev_state = STRESSED
    /\ ~CriticalGateTripped(ev_primary) /\ ~IdleConditions(ev_primary)
    /\ ev_ret[2] = 0

AllZero == idle_signals
AllZeroFailed5 == [idle_signals EXCEPT !.workflow_completion.failed_per_sec = 50]

\* C4 as claimed: (Happy, 0) is returned for every current state and every
\* incoming counter exactly when the idle conditions hold.
C4_Original_IdleExactlyWhen ==
    Returned =>
      ( (\A st \in HealthState : \A k \in 0..MaxCount :
            evaluate_health_state(ev_primary, st, CriticalThresholds, StressedThresholds, HealthyThresholds, k) = <<HAPPY, 0>>)
        <=> IdleConditions(ev_primary) )

\* C4 (amended): idle detection has highest priority.  Whenever the idle
\* conditions hold the call returns (Happy, 0), for every current state and
\* incoming counter; the all-zero signal is idle, and the all-zero signal with
\* failed_per_sec = 5 is not idle and is not answered with Happy.
C4_IdleHighestPriority ==
    Returned =>
      /\ IdleConditions(ev_primary) => ev_ret = <<HAPPY, 0>>
      /\ ev_primary = AllZero => ev_ret = <<HAPPY, 0>>
      /\ ev_primary = AllZeroFailed5 => (~_is_idle(ev_primary) /\ ev_ret[1] # HAPPY)

\* C4 witness: an idle signal that also trips a critical gate (no throughput)
\* arrives in Critical with a sustained count and is answered (Happy, 0).
C4_Witness ==
    /\ Returned /\ ev_state = CRITICAL /\ ev_count >= CONSECUTIVE_CRITICAL_THRESHOLD
    /\ IdleConditions(ev_primary) /\ CriticalGateTripped(ev_primary)
    /\ ev_ret = <<HAPPY, 0>>

\* The hysteresis band as the specification words it.
NearCritical(s) ==
    \/ s.state_transitions.throughput_per_sec < 150
    \/ s.history.backlog_age_sec > 900
    \/ s.history.task_processing_rate_per_sec < 150

\* C5: recovery hysteresis.  From Critical, a non-idle signal that trips no
\* critical gate but is still near critical returns (Stressed, 0), never Happy.
C5_RecoveryHysteresis ==
    (/\ Returned /\ ev_state = CRITICAL
     /\ ~IdleConditions(ev_primary) /\ ~CriticalGateTripped(ev_primary)
     /\ NearCritical(ev_primary))
    => ev_ret = <<STRESSED, 0>>

\* C5 witness: a signal that passes every stressed and healthy gate but whose
\* processing rate is inside the band is held at Stressed.
C5_Witness ==
    /\ Returned /\ ev_state = CRITICAL
    /\ ~IdleConditions(ev_primary) /\ ~CriticalGateTripped(ev_primary)
    /\ NearCritical(ev_primary)
    /\ ~_is_stressed(ev_primary, StressedThresholds)
    /\ _is_healthy(ev_primary, HealthyThresholds)
    /\ ev_ret = <<STRESSED, 0>>

\* C6: scenario C.  Throughput 0/s and history backlog age 500 s from
\* (Happy, 10) returns (Stressed, 11).
C6_ScenarioC ==
    (/\ Returned /\ ev_state = HAPPY /\ ev_count = 10
     /\ ev_primary.state_transitions.throughput_per_sec = 0
     /\ ev_primary.history.backlog_age_sec = 5000)
    => ev_ret = <<STRESSED, 11>>

\* C6 witness: the scenario's call has been made.
C6_Witness ==
    /\ Returned /\ ev_state = HAPPY /\ ev_count = 10
    /\ ev_primary = sudden_collapse_signals
    /\ ev_ret = <<STRESSED, 11>>

\* The ramp-up signal of scenario A: 100 transitions/s, 2 completions/s,
\* completion rate 0.2, backlog 5 s, processing rate 100/s, a terminal rate
\* (completions + failures) below the demand floor and a persistence error
\* rate that does not trip its own gate.
RampUp(s) ==
    /\ s.state_transitions.throughput_per_sec = 1000
    /\ s.workflow_completion.success_per_sec = 20
    /\ s.workflow_completion.completion_rate = 20
    /\ s.history.backlog_age_sec = 50
    /\ s.history.task_processing_rate_per_sec = 1000
    /\ s.workflow_completion.success_per_sec + s.workflow_completion.failed_per_sec
          < completion_rate_demand_floor_per_sec
    /\ s.persistence.error_rate_per_sec <= 100

C8_RulesDecideAIExplains ==
    \A c \in DOMAIN children :
        LET run == children[c]
        IN  /\ run.pc \in {"store", "done"} => run.assessment.health_state = run.input.health_state
            /\ \A id \in run.rows : health_assessments[id].overall_status = run.input.health_state
            /\ run.pc = "done" => run.result.health_state = run.input.health_state

\* A deep explanation whose narrator named another state than the input's was
\* persisted and returned.
C8_Witness ==
    \E c \in DOMAIN children :
        /\ children[c].pc = "done"
        /\ children[c].rows # {}
        /\ children[c].output \notin {None, RawString}
        /\ children[c].output.health_state # children[c].input.health_state
        /\ children[c].result.natural_language_summary = "narrator"

\* Reconciliation is over and no evaluation has been made.
BeforeFirstEvaluation == _reconciled /\ _signal_window = <<>>

\* The state s is that of a persisted assessment no other is more recent than.
MostRecentPersistedState(s) ==
    \E i \in DOMAIN health_assessments :
        /\ health_assessments[i].overall_status = s
        /\ \A k \in DOMAIN health_assessments :
              health_assessments[k].timestamp <= health_assessments[i].timestamp

\* C9 as stated: before the first evaluation current_state is the state of the
\* most recent persisted assessment if one exists, and Happy otherwise.
C9_Original_Reconciliation ==
    BeforeFirstEvaluation =>
        IF health_assessments # <<>> THEN MostRecentPersistedState(_current_state)
                                     ELSE _current_state = HAPPY

\* C9: before the first evaluation current_state is the state of the most
\* recent persisted assessment if get_latest_assessment returned one, and
\* Happy if none exists or the activity failed.
C9_Reconciliation ==
    BeforeFirstEvaluation =>
        IF health_assessments # <<>> /\ assessment # ActivityError
        THEN MostRecentPersistedState(_current_state)
        ELSE _current_state = HAPPY

\* Two assessments are stored, the more recent one inserted first and naming
\* another state, and its state was adopted.
C9_Witness ==
    /\ BeforeFirstEvaluation
    /\ Len(health_assessments) = 2
    /\ health_assessments[1].timestamp > health_assessments[2].timestamp
    /\ health_assessments[1].overall_status # health_assessments[2].overall_status
    /\ health_assessments[1].overall_status # HAPPY
    /\ _current_state = health_assessments[1].overall_status

IterationFails ==
    \/ FetchSignalsRaises
    \/ \E inserted \in BOOLEAN : StoreSnapshotRaises(inserted)
    \/ StartChildRaises

\* C10: a failure of fetch_signals_from_amp, store_signals_snapshot or the
\* child start never terminates the observer: the error is logged, the
\* workflow is at its sleep, and the sleep leads to the next iteration.
C10_FailurePolicy ==
    /\ [](obs_pc # "terminated")
    /\ [][IterationFails => obs_pc' = "sleep" /\ obs_log'.at = now /\ obs_log'.error # "none"]_vars
    /\ (obs_pc = "sleep" /\ now < MaxTicks) ~> (obs_pc = "fetch")

\* After a failed child start the next iteration fetched signals again.
C10_Witness ==
    /\ obs_log.error = "start_child_workflow"
    /\ obs_log.at < now
    /\ obs_pc = "store"

\* C11: a child with trigger state_change is started only in a step that
\* changes current_state to the state the child is handed, one child in such
\* a step; a failed start starts no child and changes no state.
C11_OneChildPerStateChange ==
    [][ /\ Len(children') > Len(children) =>
            /\ Len(children') = Len(children) + 1
            /\ children'[Len(children')].input.trigger = "state_change"
            /\ _current_state' # _current_state
            /\ children'[Len(children')].input.health_state = _current_state'
        /\ (obs_pc = "start_child" /\ obs_pc' = "sleep" /\ obs_log' # obs_log) =>
            /\ children' = children
            /\ _current_state' = _current_state ]_vars

\* A child start failed, and a later iteration started the one child of the
\* state change.
C11_Witness ==
    /\ obs_log.error = "start_child_workflow"
    /\ Len(children) = 1
    /\ children[1].input.signals.timestamp > obs_log.at
    /\ _current_state = children[1].input.health_state

\* C12: at every moment every fixed workflow ID has at most one running
\* execution, and once a process configured with both endpoints is through
\* start_workflows, each ID it is configured to start has exactly one.
C12_IdempotentStart ==
    /\ \A id \in WorkflowIds : Cardinality(Running(id)) <= 1
    /\ \A p \in DOMAIN starters :
          (starters[p].pc \in {"returned", "raised"} /\ starters[p].amp_endpoint /\ starters[p].dsql_endpoint) =>
              /\ Cardinality(Running(OBSERVE_WORKFLOW_ID)) = 1
              /\ Cardinality(Running(SCHEDULED_WORKFLOW_ID)) = 1
              /\ starters[p].loki_url => Cardinality(Running(LOG_WATCHER_WORKFLOW_ID)) = 1

\* A starter and a worker ran start_workflows concurrently, a third process
\* ran it again, and each of the three IDs has one running execution, the
\* three not all started by one process.
C12_Witness ==
    /\ Len(starters) = 3
    /\ \A p \in DOMAIN starters : starters[p].pc = "returned" /\ starters[p].amp_endpoint /\ starters[p].dsql_endpoint /\ starters[p].loki_url
    /\ starters[1].kind = "starter" /\ starters[2].kind = "worker"
    /\ \A id \in WorkflowIds : Cardinality(Running(id)) = 1
    /\ Cardinality({ e.started_by : e \in executions }) > 1

\* C13 as stated: whenever a query can be answered, if the window holds the
\* signals of the tick evaluated last, current_state is the state that
\* evaluation returned.
C13_AtomicTick ==
    ( /\ new_state # Unassigned
      /\ query_signal_window_size > 0
      /\ _signal_window[Len(_signal_window)] = signals )
    => query_current_state = new_state

\* Rows of health_assessments inserted by two different runs.
RowsOfDifferentRuns(i, j) ==
    \E c1 \in DOMAIN children : \E c2 \in DOMAIN children :
        c1 # c2 /\ i \in children[c1].rows /\ j \in children[c2].rows

\* C14 as stated: two persisted assessments of different runs, of which the
\* later (persisted second, and not older by its timestamp) is scheduled, are
\* never less than 4 minutes apart.
C14_ScheduledDeduplication ==
    \A i \in DOMAIN health_assessments : \A j \in DOMAIN health_assessments :
        ( /\ RowsOfDifferentRuns(i, j)
          /\ health_assessments[j].trigger = "scheduled"
          /\ j > i
          /\ health_assessments[j].timestamp >= health_assessments[i].timestamp )
        => health_assessments[j].timestamp - health_assessments[i].timestamp >= RECENT_WINDOW

\* The baselines of one cluster and namespace.
Baselines(cluster_id, namespace) ==
    { i \in DOMAIN behaviour_profiles :
        /\ behaviour_profiles[i].cluster_id = cluster_id
        /\ behaviour_profiles[i].namespace = namespace
        /\ behaviour_profiles[i].is_baseline }

\* C15 as stated: at every moment every (cluster_id, namespace) has at most
\* one row with is_baseline = true.
C15_BaselineUniqueness ==
    \A cluster_id \in ClusterIds : \A namespace \in Namespaces :
        Cardinality(Baselines(cluster_id, namespace)) <= 1

\* C16 as stated: no state, observable by a reader or left by a failure, has
\* the previous baseline Y cleared by set_baseline(X) and X not set.
C16_ScenarioG ==
    \A c \in DOMAIN baseline_calls :
        LET X == baseline_calls[c].profile_id
            cleared == baseline_calls[c].cleared \ {X}
        IN  ~ ( /\ baseline_calls[c].pc \in {"set", "raised"}
                /\ cleared # {}
                /\ \A Y \in cleared : ~behaviour_profiles[Y].is_baseline
                /\ ~behaviour_profiles[X].is_baseline )

\* C17 as stated: a run of AssessHealthWorkflow never has more than one row
\* in health_assessments, also after a retried store activity, a run whose
\* store activity returned has exactly one, and no step updates or deletes
\* a row.
C17_PersistedExactlyOnce ==
    /\ [](\A c \in DOMAIN children :
            /\ Cardinality(children[c].rows) <= 1
            /\ children[c].assessment_id # {} => children[c].rows = children[c].assessment_id)
    /\ [][ /\ Len(health_assessments') >= Len(health_assessments)
           /\ \A i \in DOMAIN health_assessments : health_assessments'[i] = health_assessments[i] ]_vars


\* C18 (narrator fallback): a failure or malformed output of the triage
\* narrator, or of the deep narrator, never makes a run of
\* AssessHealthWorkflow fail: every run that leaves the narrator steps carries
\* an assessment and goes on to the store step.
C18_NarratorFallback ==
    /\ [](\A c \in DOMAIN children : children[c].pc # "failed")
    /\ [][\A c \in DOMAIN children :
            (children[c].pc \in {"dispatch", "research"} /\ children'[c].pc \notin {"dispatch", "research"})
                => (children'[c].pc = "store" /\ children'[c].assessment # None)]_vars

\* C19 (exhaustive triage match): a dispatcher output that is none of
\* NoExplanationNeeded, QuickExplanation and NeedsDeepExplanation makes the run
\* fail; no assessment is built for it and the run never reaches the store
\* step.
C19_ExhaustiveTriageMatch ==
    [][\A c \in DOMAIN children :
          DispatcherReturns(c, "Other")
              => (children'[c].pc = "failed" /\ children'[c].assessment = None)]_vars

\* The rows of metrics_snapshots of greatest timestamp.
latest_metrics_snapshot(table) ==
    { table[j] : j \in { i \in DOMAIN table :
                           \A k \in DOMAIN table : table[k].timestamp <= table[i].timestamp } }

\* C20 (scenario D): whenever the most recent stored assessment has a
\* non-Happy state and the latest stored metrics snapshot satisfies the idle
\* detector, the GET /status answered in that state reports Happy.
C20_ScenarioD ==
    [][ ( /\ status_calls' # status_calls
          /\ health_assessments # <<>>
          /\ \A a \in _fetch_latest_assessment(health_assessments) : a.health_state # HAPPY
          /\ metrics_snapshots # <<>>
          /\ \A row \in latest_metrics_snapshot(metrics_snapshots) : _is_cluster_idle(row.metrics) )
        => status_response'.health_state = HAPPY ]_vars

\* C21 (the API's idle check mirrors the state machine's): for every
\* primary-signal snapshot _is_cluster_idle is true exactly when _is_idle is
\* true; a snapshot whose workflow failed rate is 0.1/s or more is idle for
\* neither.
C21_IdleCheckMirrors ==
    /\ _is_cluster_idle(ev_primary) <=> _is_idle(ev_primary)
    /\ ev_primary.workflow_completion.failed_per_sec >= 1
          => (~_is_cluster_idle(ev_primary) /\ ~_is_idle(ev_primary))

\* The profile compile() resolves for the current arguments, and the results
\* of the rules of severity error on it, rule by rule.
ResolvedProfile ==
    ConfigProfile(cc_preset, cc_modifier, cc_overrides, _resolve_all(PRESETS[cc_preset], cc_modifier, cc_overrides))
ErrorRails ==
    _check_max_idle_equals_max_conns(ResolvedProfile) \o _check_cluster_connection_limit(ResolvedProfile)
    \o _check_thundering_herd(ResolvedProfile) \o _check_reservoir_target_positive(ResolvedProfile)
    \o _check_distributed_rate_limiter_table(ResolvedProfile)
WarningRails ==
    _check_matching_partition_warning(ResolvedProfile) \o _check_sticky_warning(ResolvedProfile)
\* compile() got past the validation of the overrides.
Validated == cc_result # None /\ cc_result.raised \in {"", "CompilationError"}

\* C22 (guard-rail accumulation): every rule runs on every profile and every
\* violated rule gives one result; compile() fails exactly when an error rule
\* is violated and then reports every violated error rule (three of them
\* when three are violated), and a returned result carries every warning.
C22_GuardRailAccumulation ==
    Validated =>
        /\ cc_result.raised = "CompilationError" <=> ErrorRails # <<>>
        /\ cc_result.errors = [ i \in DOMAIN ErrorRails |-> ErrorRails[i].rule_name ]
        /\ Len(ErrorRails) = 3 => Len(cc_result.errors) = 3
        /\ cc_result.raised = "" => Len(cc_result.guard_rail_results) = Len(WarningRails)

\* compile() failed on three error rules at once.
C22_Witness ==
    /\ cc_result # None
    /\ cc_result.raised = "CompilationError"
    /\ Len(cc_result.errors) = 3

\* The value compile() resolved for a key of the returned profile.
value_of(key) == get_param(cc_result.profile, key)[1].value
\* persistence.maxConns as the compiler resolves it: the override, else the
\* preset's literal.
effective_max_conns ==
    IF "persistence.maxConns" \in DOMAIN cc_overrides
    THEN cc_overrides["persistence.maxConns"]
    ELSE PRESETS[cc_preset].safety_derivations[1].expression.parsed

\* C23 (idle equals max): every profile a successful compile() returns has
\* persistence.maxIdleConns equal to persistence.maxConns, and a compile()
\* whose overrides pass validation and set maxIdleConns to maxConns - 1 fails
\* with a max_idle_equals_max_conns error.
C23_MaxIdleEqualsMaxConns ==
    /\ (cc_result # None /\ cc_result.raised = "")
          => value_of("persistence.maxIdleConns") = value_of("persistence.maxConns")
    /\ ( /\ Validated
          /\ "persistence.maxIdleConns" \in DOMAIN cc_overrides
          /\ cc_overrides["persistence.maxIdleConns"] = effective_max_conns - 1 )
          => /\ cc_result.raised = "CompilationError"
             /\ \E i \in DOMAIN cc_result.errors : cc_result.errors[i] = "max_idle_equals_max_conns"

\* A compile() with maxConns and maxIdleConns overridden to the same value
\* succeeded.
C23_Witness ==
    /\ Validated
    /\ "persistence.maxIdleConns" \in DOMAIN cc_overrides
    /\ "persistence.maxConns" \in DOMAIN cc_overrides
    /\ cc_overrides["persistence.maxIdleConns"] = cc_overrides["persistence.maxConns"]
    /\ cc_result.raised = ""

\* The pool size the returned profile uses per instance, and its replicas.
connections_per_instance ==
    IF value_of("dsql.reservoir_enabled")
    THEN value_of("dsql.reservoir_target_ready")
    ELSE value_of("persistence.maxConns")
replicas ==
    value_of("history.replicas") + value_of("matching.replicas")
    + value_of("frontend.replicas") + value_of("worker.replicas")

\* C24 (cluster connection limit): every profile a successful compile()
\* returns has connections-per-instance times the history, matching, frontend
\* and worker replicas at most 10,000.
C24_ClusterConnectionLimit ==
    (cc_result # None /\ cc_result.raised = "") => connections_per_instance * replicas <= 10000

\* A successful compile() of a profile with an overridden pool of 500 and more
\* than half of the limit in use.
C24_Witness ==
    /\ cc_result # None
    /\ cc_result.raised = ""
    /\ connections_per_instance = 500
    /\ connections_per_instance * replicas > 5000

\* C25 (override precedence): for every registered key of every
\* classification, an override that passes validation and the guard rails is
\* the value of the key in the compiled profile, with source override.
C25_OverridePrecedence ==
    (cc_result # None /\ cc_result.raised = "") =>
        \A key \in DOMAIN cc_overrides :
            /\ get_param(cc_result.profile, key) # <<>>
            /\ value_of(key) = cc_overrides[key]
            /\ get_param(cc_result.profile, key)[1].source = "override"

\* healthy <= stressed < critical for the backlog age, critical <= healthy for
\* the throughput floor, critical < healthy for the completion floor.
threshold_ordering(t) ==
    /\ t.healthy.history_backlog_age_healthy_sec <= t.stressed.history_backlog_age_stress_sec
    /\ t.stressed.history_backlog_age_stress_sec < t.critical.history_backlog_age_max_sec
    /\ t.critical.state_transitions_min_per_sec <= t.healthy.state_transitions_healthy_per_sec
    /\ t.critical.workflow_completion_rate_min < t.healthy.workflow_completion_rate_healthy

\* C26 (threshold ordering): every threshold set the state machine runs with
\* satisfies the ordering, and a set that violates it is detected at startup:
\* the worker does not get past its boot and no evaluation runs with it.
C26_ThresholdOrdering ==
    /\ th_pc = "running" => threshold_ordering(th_config)
    /\ ev_ret # NoRet => threshold_ordering(th_config)

\* C27 (queries): a query for current_state, for the sliding-window size and
\* for the consecutive-critical counter is each answered with a value, and
\* the step that answers a query leaves every attribute of the workflow as it
\* was.
C27_ReadOnlyQueries ==
    /\ [](query_reply.query \in QueryNames => ~query_reply.failed)
    /\ [][(\E name \in QueryNames : Query(name)) => UNCHANGED obsVars]_vars

\* The threshold of a metric's own category among the caller's three.
category_threshold(name, kwargs) ==
    IF is_error(name) THEN keyword(kwargs, "error_threshold_pct", 50)
    ELSE IF is_throughput(name) THEN keyword(kwargs, "throughput_threshold_pct", 30)
    ELSE keyword(kwargs, "latency_threshold_pct", 20)

\* The change of a telemetry diff as computed, before it is rounded.
change_of(diff) == _pct_change(diff.old_value.mean, diff.new_value.mean)

\* C28 (category thresholds): a call of compare_profiles on two profiles that
\* carry a config snapshot, and that overrides any
\* of the latency, error and throughput thresholds returns a comparison, and
\* every telemetry diff is graded against the threshold of its metric's own
\* category: the caller's value, or 20% for latency, 50% for errors and 30%
\* for throughput.
C28_CategoryThresholds ==
    (cmp_comparison # None /\ cmp_a.config_snapshot # None /\ cmp_b.config_snapshot # None) =>
        /\ cmp_comparison.kind = "ProfileComparison"
        /\ \A i \in DOMAIN cmp_comparison.telemetry_diffs :
              LET diff == cmp_comparison.telemetry_diffs[i]
              IN  diff.severity = severity_of(diff.direction, change_of(diff),
                                              category_threshold(diff.metric, cmp_kwargs))

\* The threshold compare_profiles applies to a metric, and detect_drift.
compare_threshold(name) ==
    IF is_error(name) THEN keyword(cmp_kwargs, "error_threshold_pct", 50)
    ELSE keyword(cmp_kwargs, "latency_threshold_pct", 20)

detect_threshold(name) ==
    drift_threshold(name, IF drift_thresholds = None THEN DriftThresholds(20, 50, 30) ELSE drift_thresholds)

\* The gates on a severity: critical exactly for a regression over twice the
\* threshold, warning exactly for a regression over the threshold and not
\* over twice it, info for everything else.
regression_gates(severity, direction, change, threshold) ==
    /\ severity = "critical" <=> (direction = "regressed" /\ Abs(change) > 2 * Pct(threshold))
    /\ severity = "warning" <=> (direction = "regressed" /\ Abs(change) > Pct(threshold)
                                                         /\ Abs(change) <= 2 * Pct(threshold))
    /\ severity = "info" <=> (direction # "regressed" \/ Abs(change) <= Pct(threshold))

\* The gates read for every diff, whatever its direction.
any_direction_gates(severity, change, threshold) ==
    /\ Abs(change) > 2 * Pct(threshold) => severity = "critical"
    /\ (Abs(change) > Pct(threshold) /\ Abs(change) <= 2 * Pct(threshold)) => severity = "warning"

\* C29 (severity gates), amended: in the telemetry diffs of compare_profiles
\* and in the drifted metrics of detect_drift, the severity is critical
\* exactly when the direction is regressed and |change| exceeds twice the
\* threshold applied to the metric, warning exactly when it is regressed and
\* |change| exceeds the threshold but not twice it, and info otherwise.
C29_SeverityGates ==
    /\ cmp_comparison.kind = "ProfileComparison" =>
            \A i \in DOMAIN cmp_comparison.telemetry_diffs :
                LET diff == cmp_comparison.telemetry_diffs[i]
                IN  regression_gates(diff.severity, diff.direction, change_of(diff),
                                     compare_threshold(diff.metric))
    /\ drift_assessment # None =>
            \A i \in DOMAIN drift_assessment.drifted_metrics :
                LET result == drift_assessment.drifted_metrics[i]
                IN  regression_gates(result.severity, result.direction,
                                     _pct_change(result.baseline_value, result.current_value),
                                     detect_threshold(result.metric))

\* Both calls returned; the comparison holds a regressed diff graded warning,
\* one graded critical and an improved diff over twice its threshold, and a
\* drifted metric is critical.
C29_Witness ==
    /\ cmp_comparison.kind = "ProfileComparison"
    /\ drift_assessment # None
    /\ \E i, j, k \in DOMAIN cmp_comparison.telemetry_diffs :
          /\ cmp_comparison.telemetry_diffs[i].severity = "warning"
          /\ cmp_comparison.telemetry_diffs[j].severity = "critical"
          /\ cmp_comparison.telemetry_diffs[k].direction = "improved"
          /\ Abs(cmp_comparison.telemetry_diffs[k].change_pct)
                > 2 * Pct(compare_threshold(cmp_comparison.telemetry_diffs[k].metric))
    /\ \E i \in DOMAIN drift_assessment.drifted_metrics :
          drift_assessment.drifted_metrics[i].severity = "critical"

\* C29 as stated: every telemetry diff whose |change_pct| exceeds its
\* threshold is a warning and every one whose |change_pct| exceeds twice the
\* threshold is critical, whatever its direction.
C29_Original_SeverityGates ==
    /\ cmp_comparison.kind = "ProfileComparison" =>
            \A i \in DOMAIN cmp_comparison.telemetry_diffs :
                LET diff == cmp_comparison.telemetry_diffs[i]
                IN  any_direction_gates(diff.severity, diff.change_pct, compare_threshold(diff.metric))
    /\ drift_assessment # None =>
            \A i \in DOMAIN drift_assessment.drifted_metrics :
                LET result == drift_assessment.drifted_metrics[i]
                IN  any_direction_gates(result.severity, result.change_pct, detect_threshold(result.metric))

\* The comparison reports the key as changed.
reports_changed(comparison, key) ==
    \E i \in DOMAIN comparison.config_diffs : comparison.config_diffs[i].key = key

\* The correlation assessment links the key to the metric.
links(correlation_assessment, key, metric) ==
    \E i \in DOMAIN correlation_assessment.correlations :
        /\ correlation_assessment.correlations[i].config_key = key
        /\ \E m \in DOMAIN correlation_assessment.correlations[i].correlated_metrics :
              correlation_assessment.correlations[i].correlated_metrics[m] = metric

\* The comparison holds a diff of the metric with direction regressed and
\* one of the given severities.
has_regressed(comparison, metric, severities) ==
    \E i \in DOMAIN comparison.telemetry_diffs :
        /\ comparison.telemetry_diffs[i].metric = metric
        /\ comparison.telemetry_diffs[i].direction = "regressed"
        /\ comparison.telemetry_diffs[i].severity \in severities

\* Every key of the table that is reported changed is linked to each of its
\* correlated metrics that regressed with one of the given severities.
correlations_emitted(severities) ==
    cmp_correlation # None =>
        \A key \in DOMAIN CONFIG_TELEMETRY_CORRELATIONS :
            \A m \in DOMAIN CONFIG_TELEMETRY_CORRELATIONS[key] :
                (/\ reports_changed(cmp_comparison, key)
                 /\ has_regressed(cmp_comparison, CONFIG_TELEMETRY_CORRELATIONS[key][m], severities))
                    => links(cmp_correlation, key, CONFIG_TELEMETRY_CORRELATIONS[key][m])

never_scale_down_warned(message) ==
    \E i \in DOMAIN ws_warnings.warnings :
        /\ ws_warnings.warnings[i].rule = "NEVER_SCALE_DOWN_AT_ZERO"
        /\ ws_warnings.warnings[i].severity = "critical"
        /\ ws_warnings.warnings[i].message = message

\* C31 (NEVER_SCALE_DOWN_AT_ZERO): whenever the workflow or the activity
\* slots_available is 0, the returned warnings hold a critical
\* NEVER_SCALE_DOWN_AT_ZERO warning, and for the proposed action scale_down
\* they hold the critical BLOCKED warning too, whatever the other inputs are.
C31_NeverScaleDownAtZero ==
    (ws_warnings.called
       /\ (ws_worker.workflow_slots_available = 0 \/ ws_worker.activity_slots_available = 0))
    => /\ never_scale_down_warned("Worker task slots exhausted.")
       /\ ws_action = "scale_down" => never_scale_down_warned("BLOCKED")

\* A scale-down was evaluated with only the activity slots exhausted, with
\* a context of long-running workflows, and was blocked.
C31_Witness ==
    /\ ws_warnings.called
    /\ ws_worker.workflow_slots_available > 0
    /\ ws_worker.activity_slots_available = 0
    /\ ws_action = "scale_down"
    /\ ws_context # None
    /\ never_scale_down_warned("BLOCKED")

\* C32 (debounce invariant): at every iteration boundary of the observer,
\* the top of the loop and its sleep, current_state = Critical implies that
\* the consecutive-critical counter has reached the threshold.
C32_CriticalImpliesDebounced ==
    (obs_pc \in {"fetch", "sleep"} /\ _current_state = CRITICAL)
        => _consecutive_critical_count >= CONSECUTIVE_CRITICAL_THRESHOLD

\* C33 (no Happy -> Critical): no step of the observer, its reconciliation
\* included, takes current_state from Happy directly to Critical.
C33_NoHappyToCritical ==
    [][~(_current_state = HAPPY /\ _current_state' = CRITICAL)]_vars

\* C34 (no state change lost): an Assessment child started for a state change
\* to s that has run to its end, narrator or store failures included, has
\* left a persisted assessment with trigger state_change and state s.
C34_NoStateChangeLost ==
    \A c \in DOMAIN children :
        (children[c].input.trigger = "state_change" /\ children[c].pc \in {"done", "failed"})
            => \E i \in DOMAIN health_assessments :
                  /\ health_assessments[i].trigger = "state_change"
                  /\ health_assessments[i].overall_status = children[c].input.health_state

\* The state ObserveClusterWorkflow holds after n further iterations of its
\* loop that all observe the same signals (run: the state and the counter are
\* carried from one evaluate_health_state call to the next).
RECURSIVE observer_state_after(_, _, _, _)
observer_state_after(primary, current_state, consecutive_critical_count, n) ==
    IF n = 0
    THEN current_state
    ELSE LET r == evaluate_health_state(primary, current_state, CriticalThresholds, StressedThresholds, HealthyThresholds, consecutive_critical_count)
         IN  observer_state_after(primary, r[1], r[2], n - 1)

\* C35 (scheduled state equals the observer's): a persisted scheduled
\* assessment carries the state the observer holds for the same signals once
\* they are sustained; for a sustained collapse that state is Critical.
C35_ScheduledStateEqualsObserver ==
    \A i \in DOMAIN health_assessments :
        health_assessments[i].trigger = "scheduled"
            => health_assessments[i].overall_status
                   = observer_state_after(health_assessments[i].primary_signals, HAPPY, 0, CONSECUTIVE_CRITICAL_THRESHOLD)

\* C36 (the two stores agree on the baseline flag): after set_baseline(X) has
\* returned, with no later call under way, X's metadata row and the profile
\* get(X) returns both report is_baseline = true, and get(Y) reports false for
\* every previous baseline Y the call cleared.
C36_StoresAgreeOnBaseline ==
    \A c \in DOMAIN baseline_calls :
        ( /\ baseline_calls[c].pc = "returned"
          /\ \A d \in DOMAIN baseline_calls : d # c => baseline_calls[d].pc = "raised" /\ baseline_calls[d].row = None )
        => /\ behaviour_profiles[baseline_calls[c].profile_id].is_baseline
           /\ get(s3_objects, baseline_calls[c].profile_id).is_baseline
           /\ \A y \in baseline_calls[c].cleared : ~get(s3_objects, y).is_baseline

\* C37 (comparison without a config snapshot): compare_profiles, called with
\* its own keywords, returns a comparison for every pair of profiles, and for
\* a pair in which a profile carries no config snapshot the comparison has an
\* empty list of config diffs.
C37_MissingConfigSnapshot ==
    (cmp_comparison # None /\ DOMAIN cmp_kwargs \subseteq compare_profiles_keywords)
        => /\ cmp_comparison.kind = "ProfileComparison"
           /\ (cmp_a.config_snapshot = None \/ cmp_b.config_snapshot = None)
                  => cmp_comparison.config_diffs = <<>>

\* C38 (safety context holds the overrides): a compile() of any preset whose
\* only override is a valid persistence.maxConns = v resolves
\* persistence.maxIdleConns to v, reports no max_idle_equals_max_conns error,
\* and the profile it returns carries maxIdleConns = v.
C38_SafetyContextHoldsOverrides ==
    (Validated /\ DOMAIN cc_overrides = {"persistence.maxConns"})
        => /\ get_param(ResolvedProfile, "persistence.maxIdleConns")[1].value = cc_overrides["persistence.maxConns"]
           /\ _check_max_idle_equals_max_conns(ResolvedProfile) = <<>>
           /\ \A i \in DOMAIN cc_result.errors : cc_result.errors[i] # "max_idle_equals_max_conns"
           /\ cc_result.raised = "" => value_of("persistence.maxIdleConns") = cc_overrides["persistence.maxConns"]

\* A compile() of mid-scale with only persistence.maxConns overridden, to a
\* value that is not the preset's, returned a profile with that maxIdleConns.
C38_Witness ==
    /\ cc_result # None
    /\ cc_result.raised = ""
    /\ cc_preset = "mid-scale"
    /\ DOMAIN cc_overrides = {"persistence.maxConns"}
    /\ cc_overrides["persistence.maxConns"] = 9
    /\ PRESETS[cc_preset].safety_derivations[1].expression.parsed # 9
    /\ value_of("persistence.maxIdleConns") = 9

====
